---- MODULE Spec2Model ----
(***************************************************************************)
(* A model of the STRling recursive-descent parser,                        *)
(* bindings/c/src/core/parser.c.                                           *)
(*                                                                         *)
(* A text is a sequence of one-character strings.  The parser is a pure    *)
(* function of the text: every C function is an operator that takes the   *)
(* Parser record and returns the Parser record it leaves behind (and the   *)
(* node it returns); every C loop is a RECURSIVE operator with one         *)
(* unfolding per iteration.  The state machine draws a text, applies       *)
(* strling_parse to it and frees the result.                               *)
(*                                                                         *)
(* The Parser record carries one field the C struct does not have: log,    *)
(* the history of what the parser did (each parser_set_error call, each    *)
(* atom, each quantifier, each cursor rewind), in order.  No operator      *)
(* reads it; the properties do.                                            *)
(***************************************************************************)
EXTENDS Integers, Sequences, FiniteSets, TLC

VARIABLES text, pc, result, parser

vars == <<text, pc, result, parser>>

(***************************************************************************)
(* Characters                                                              *)
(***************************************************************************)

\* '\0': what cursor_peek and cursor_take return past the end of the text.
NUL == "NUL"
LF == "\n"
CR == "\r"
TAB == "\t"
FF == "\f"
VT == "VT"
BS == "BS"
BSL == "\\"

Digits == {"0", "1", "2", "3", "4", "5", "6", "7", "8", "9"}

isdigit(ch) == ch \in Digits

DigitVal(ch) ==
    CASE ch = "0" -> 0 [] ch = "1" -> 1 [] ch = "2" -> 2 [] ch = "3" -> 3
      [] ch = "4" -> 4 [] ch = "5" -> 5 [] ch = "6" -> 6 [] ch = "7" -> 7
      [] ch = "8" -> 8 [] ch = "9" -> 9

\* The code point of a character (the ones the inputs below are made of).
Ord(ch) ==
    CASE ch = TAB -> 9 [] ch = LF -> 10 [] ch = CR -> 13 [] ch = " " -> 32
      [] ch = "#" -> 35 [] ch = "$" -> 36 [] ch = "%" -> 37 [] ch = "(" -> 40
      [] ch = ")" -> 41 [] ch = "*" -> 42 [] ch = "+" -> 43 [] ch = "," -> 44
      [] ch = "-" -> 45 [] ch = "." -> 46
      [] isdigit(ch) -> 48 + DigitVal(ch)
      [] ch = ":" -> 58 [] ch = "<" -> 60 [] ch = "=" -> 61 [] ch = ">" -> 62
      [] ch = "?" -> 63 [] ch = "A" -> 65 [] ch = "B" -> 66 [] ch = "I" -> 73
      [] ch = "M" -> 77 [] ch = "S" -> 83 [] ch = "U" -> 85 [] ch = "X" -> 88
      [] ch = "Z" -> 90 [] ch = "[" -> 91
      [] ch = BSL -> 92 [] ch = "]" -> 93 [] ch = "^" -> 94
      [] ch = "a" -> 97 [] ch = "b" -> 98 [] ch = "c" -> 99 [] ch = "d" -> 100
      [] ch = "f" -> 102 [] ch = "g" -> 103 [] ch = "i" -> 105 [] ch = "k" -> 107
      [] ch = "l" -> 108 [] ch = "m" -> 109 [] ch = "n" -> 110 [] ch = "s" -> 115
      [] ch = "u" -> 117 [] ch = "x" -> 120 [] ch = "y" -> 121 [] ch = "z" -> 122
      [] ch = "{" -> 123 [] ch = "|" -> 124 [] ch = "}" -> 125

\* A C string built from a char array: it ends at the first '\0'.
RECURSIVE CStr(_)
CStr(chars) ==
    IF chars = <<>> \/ Head(chars) = NUL THEN <<>>
    ELSE <<Head(chars)>> \o CStr(Tail(chars))

(***************************************************************************)
(* Nodes (nodes.h): a node is a record tagged by type; NULL is no node.    *)
(***************************************************************************)

NULL == [type |-> "NULL"]

\* A NULL char*, where a node holds a name or a property: the one sequence of
\* characters that no C string is.
NoName == <<NUL>>

strling_ast_lit_create(lit) == [type |-> "Literal", value |-> CStr(lit)]

strling_ast_dot_create == [type |-> "Dot"]

strling_ast_anchor_create(at) == [type |-> "Anchor", at |-> at]

strling_ast_seq_create(parts) == [type |-> "Seq", parts |-> parts]

strling_ast_alt_create(branches) == [type |-> "Alt", branches |-> branches]

strling_ast_quant_create(child, minv, maxv, mode) ==
    [type |-> "Quant", child |-> child, min |-> minv, max |-> maxv, mode |-> mode]

\* name is NoName for an unnamed group.
strling_ast_group_create(capturing, body, name, atomic) ==
    [type |-> "Group", capturing |-> capturing, body |-> body, name |-> name,
     atomic |-> atomic]

strling_ast_look_create(dir, neg, body) ==
    [type |-> "Look", dir |-> dir, neg |-> neg, body |-> body]

strling_ast_backref_create(byIndex, byName) ==
    [type |-> "Backref", byIndex |-> byIndex, byName |-> byName]

strling_ast_charclass_create(neg, items) ==
    [type |-> "CharClass", negated |-> neg, items |-> items]

strling_class_range_create(from, to) ==
    [type |-> "Range", from |-> CStr(from), to |-> CStr(to)]

strling_class_literal_create(lit) == [type |-> "ClassLiteral", value |-> CStr(lit)]

strling_class_escape_create(kind, prop) ==
    [type |-> "ClassEscape", kind |-> kind, property |-> prop]

strling_error_create(message, position) == [message |-> message, position |-> position]

(***************************************************************************)
(* Cursor: the fields i, extended_mode and in_class of the Parser record   *)
(* p, over the text p.src.                                                 *)
(***************************************************************************)

cursor_eof(p) == p.i >= Len(p.src)

cursor_peek(p, offset) ==
    LET j == p.i + offset
    IN  IF j >= Len(p.src) THEN NUL ELSE p.src[j + 1]

\* The cursor after cursor_take; the character taken is cursor_peek(p, 0).
cursor_take(p) == IF cursor_eof(p) THEN p ELSE [p EXCEPT !.i = @ + 1]

\* cursor_match(c, s) succeeds when s is next in the text ...
cursor_matches(p, s) ==
    /\ p.i + Len(s) <= Len(p.src)
    /\ SubSeq(p.src, p.i + 1, p.i + Len(s)) = s

\* ... and then moves the cursor past it.
cursor_match(p, s) == IF cursor_matches(p, s) THEN [p EXCEPT !.i = @ + Len(s)] ELSE p

RECURSIVE skip_comment(_)
skip_comment(p) ==
    IF ~cursor_eof(p) /\ cursor_peek(p, 0) # CR /\ cursor_peek(p, 0) # LF
    THEN skip_comment([p EXCEPT !.i = @ + 1])
    ELSE p

RECURSIVE skip_ws_loop(_)
skip_ws_loop(p) ==
    IF cursor_eof(p) THEN p
    ELSE LET ch == cursor_peek(p, 0)
         IN  IF ch \in {" ", TAB, CR, LF} THEN skip_ws_loop([p EXCEPT !.i = @ + 1])
             ELSE IF ch = "#" THEN skip_ws_loop(skip_comment(p))
             ELSE p

cursor_skip_ws_and_comments(p) ==
    IF ~p.extended_mode \/ p.in_class > 0 THEN p ELSE skip_ws_loop(p)

(***************************************************************************)
(* Parser state                                                            *)
(***************************************************************************)

RECURSIVE has_cap_name_from(_, _, _)
has_cap_name_from(p, name, k) ==
    IF k > Len(p.cap_names) THEN FALSE
    ELSE IF p.cap_names[k] = name THEN TRUE
    ELSE has_cap_name_from(p, name, k + 1)

has_cap_name(p, name) == has_cap_name_from(p, name, 1)

add_cap_name(p, name) == [p EXCEPT !.cap_names = Append(@, name)]

Logged(p, event) == [p EXCEPT !.log = Append(@, event)]

\* The guard inverted: if (!p->error) return;
parser_set_error_inverted(p, message, position) ==
    LET q == Logged(p, <<"set_error", message, position>>)
    IN  IF q.error = NULL THEN q
        ELSE [q EXCEPT !.error = strling_error_create(message, position)]

\* Keep first error.
parser_set_error(p, message, position) ==
    LET q == Logged(p, <<"set_error", message, position>>)
    IN  IF q.error # NULL THEN q
        ELSE [q EXCEPT !.error = strling_error_create(message, position)]

control_escape(ch) ==
    CASE ch = "n" -> LF [] ch = "r" -> CR [] ch = "t" -> TAB [] ch = "f" -> FF
      [] ch = "v" -> VT [] OTHER -> NUL

is_control_escape(ch) == ch \in {"n", "r", "t", "f", "v"}

(***************************************************************************)
(* Directive parsing                                                       *)
(***************************************************************************)

NoFlags ==
    [ignoreCase |-> FALSE, multiline |-> FALSE, dotAll |-> FALSE,
     unicode |-> FALSE, extended |-> FALSE]

FLAGS_DIRECTIVE == <<"%", "f", "l", "a", "g", "s">>

\* The character at offset k (from 0) of the NUL-terminated text.
CharAt(t, k) == IF k >= Len(t) THEN NUL ELSE t[k + 1]

\* strstr(t, needle): the offset of the first occurrence of needle, -1 for none.
RECURSIVE strstr_from(_, _, _)
strstr_from(t, needle, k) ==
    IF k + Len(needle) > Len(t) THEN -1
    ELSE IF SubSeq(t, k + 1, k + Len(needle)) = needle THEN k
    ELSE strstr_from(t, needle, k + 1)

strstr(t, needle) == strstr_from(t, needle, 0)

\* The first loop: the separators after "%flags".
RECURSIVE skip_separators(_, _)
skip_separators(t, after) ==
    IF CharAt(t, after) \in {" ", TAB, ",", "[", "]"}
    THEN skip_separators(t, after + 1)
    ELSE after

set_flag(flags, c) ==
    CASE c \in {"i", "I"} -> [flags EXCEPT !.ignoreCase = TRUE]
      [] c \in {"m", "M"} -> [flags EXCEPT !.multiline = TRUE]
      [] c \in {"s", "S"} -> [flags EXCEPT !.dotAll = TRUE]
      [] c \in {"u", "U"} -> [flags EXCEPT !.unicode = TRUE]
      [] c \in {"x", "X"} -> [flags EXCEPT !.extended = TRUE]
      [] OTHER -> flags

\* The second loop: the flag letters; it ends at the first character that is
\* neither a flag letter nor one of ',', ' ', '\t'.
RECURSIVE collect_flags(_, _, _)
collect_flags(t, after, flags) ==
    IF CharAt(t, after) \in {"i", "m", "s", "u", "x", "I", "M", "S", "U", "X",
                             ",", " ", TAB}
    THEN collect_flags(t, after + 1, set_flag(flags, CharAt(t, after)))
    ELSE [after |-> after, flags |-> flags]

RECURSIVE skip_to_eol(_, _)
skip_to_eol(t, after) ==
    IF CharAt(t, after) \notin {NUL, LF, CR} THEN skip_to_eol(t, after + 1) ELSE after

RECURSIVE skip_eols(_, _)
skip_eols(t, after) ==
    IF CharAt(t, after) \in {LF, CR} THEN skip_eols(t, after + 1) ELSE after

\* flags and src of the Parser; src is the offset in t at which the body starts.
parse_directives(t) ==
    LET flags_pos == strstr(t, FLAGS_DIRECTIVE)
    IN  IF flags_pos = -1 THEN [flags |-> NoFlags, src |-> 0]
        ELSE LET letters == collect_flags(t, skip_separators(t, flags_pos + 6), NoFlags)
             IN  [flags |-> letters.flags,
                  src |-> skip_eols(t, skip_to_eol(t, letters.after))]

parser_init(t) ==
    LET d == parse_directives(t)
    IN  [original |-> t, flags |-> d.flags, src_offset |-> d.src,
         src |-> SubSeq(t, d.src + 1, Len(t)),
         i |-> 0, extended_mode |-> d.flags.extended, in_class |-> 0,
         cap_count |-> 0, cap_names |-> <<>>, error |-> NULL, log |-> <<>>]

(***************************************************************************)
(* Parser implementation.  Each parse_* operator returns [p, node]: the    *)
(* Parser it leaves and the node it returns.  Where a C function goes on   *)
(* with the value of a call, the operator hands that value to the operator *)
(* of the lines after the call.                                            *)
(***************************************************************************)

Ret(p, node) == [p |-> p, node |-> node]

\* int arithmetic of the digit loops: m * k + d in 32 bits, two's complement,
\* computed on the two 16-bit halves of m.
int_mul_add(m, k, d) ==
    LET lo == (m % 65536) * k + d
        hi == (((m \div 65536) % 65536) * k + (lo \div 65536)) % 65536
    IN  (IF hi >= 32768 THEN hi - 65536 ELSE hi) * 65536 + (lo % 65536)

int_mul10_add(m, d) == int_mul_add(m, 10, d)

\* The digit loops of parse_quant_if_any: the value read, and whether a digit was.
RECURSIVE read_digits(_, _, _)
read_digits(p, m, has) ==
    IF isdigit(cursor_peek(p, 0))
    THEN read_digits(cursor_take(p), int_mul10_add(m, DigitVal(cursor_peek(p, 0))), TRUE)
    ELSE [p |-> p, value |-> m, has |-> has]

\* The name loops of (?<name> and \k<name>, and the property loop of \p{...}:
\* characters up to the closing one, the end of the text, or 255 of them.
NAME_MAX == 255

RECURSIVE read_name(_, _, _)
read_name(p, close, name) ==
    IF cursor_peek(p, 0) # close /\ cursor_peek(p, 0) # NUL /\ Len(name) < NAME_MAX
    THEN read_name(cursor_take(p), close, Append(name, cursor_peek(p, 0)))
    ELSE [p |-> p, name |-> name]

\* The anchor check left out.
quant_finish_any_child(p0, child, minv, maxv) ==
    LET p == Logged(p0, <<"quantifier", child.type>>)
        nxt == cursor_peek(p, 0)
    IN  IF nxt = "?"
        THEN Ret(cursor_take(p), strling_ast_quant_create(child, minv, maxv, "Lazy"))
        ELSE IF nxt = "+"
        THEN Ret(cursor_take(p), strling_ast_quant_create(child, minv, maxv, "Possessive"))
        ELSE Ret(p, strling_ast_quant_create(child, minv, maxv, "Greedy"))

\* The suffix character left unread and the mode Greedy.
quant_finish_greedy(p0, child, minv, maxv) ==
    LET p == Logged(p0, <<"quantifier", child.type>>)
    IN  IF child.type = "Anchor"
        THEN Ret(parser_set_error(p, "Cannot quantify anchor", p.i), child)
        ELSE Ret(p, strling_ast_quant_create(child, minv, maxv, "Greedy"))

\* Lines 480-496 of parse_quant_if_any: a quantifier has been read.
quant_finish(p0, child, minv, maxv) ==
    LET p == Logged(p0, <<"quantifier", child.type>>)
        nxt == cursor_peek(p, 0)
    IN  IF child.type = "Anchor"
        THEN Ret(parser_set_error(p, "Cannot quantify anchor", p.i), child)
        ELSE IF nxt = "?"
        THEN Ret(cursor_take(p), strling_ast_quant_create(child, minv, maxv, "Lazy"))
        ELSE IF nxt = "+"
        THEN Ret(cursor_take(p), strling_ast_quant_create(child, minv, maxv, "Possessive"))
        ELSE Ret(p, strling_ast_quant_create(child, minv, maxv, "Greedy"))

\* The missing '}' passed over without a diagnostic.
quant_close_silent(p, child, minv, maxv) ==
    IF cursor_peek(p, 0) # "}"
    THEN Ret(p, child)
    ELSE quant_finish(cursor_take(p), child, minv, maxv)

\* Lines 471-475: the closing '}'.
quant_close(p, child, minv, maxv) ==
    IF cursor_peek(p, 0) # "}"
    THEN Ret(parser_set_error(p, "Incomplete quantifier", p.i), child)
    ELSE quant_finish(cursor_take(p), child, minv, maxv)

\* Line 467: maxv = n, the digits read after the ','.
quant_max(n, child, minv) == quant_close(n.p, child, minv, n.value)

\* Lines 454-469: minv = maxv = m, then the ',' and what follows it.
quant_comma(p, child, m) ==
    IF cursor_peek(p, 0) = ","
    THEN IF cursor_peek(cursor_take(p), 0) = "}"
         THEN quant_close(cursor_take(p), child, m, -1)
         ELSE quant_max(read_digits(cursor_take(p), 0, FALSE), child, m)
    ELSE quant_close(p, child, m, m)

\* The cursor left where the digit loop stopped.
quant_min_no_restore(m, save, child) ==
    IF ~m.has
    THEN Ret(Logged(m.p, <<"backtrack", save>>), child)
    ELSE quant_comma(m.p, child, m.value)

\* Lines 448-455: m is what the digit loop after the '{' at save read.
quant_min(m, save, child) ==
    IF ~m.has
    THEN \* Not a valid quantifier, backtrack
         Ret(Logged([m.p EXCEPT !.i = save], <<"backtrack", save>>), child)
    ELSE quant_comma(m.p, child, m.value)

\* Lines 435-446: the '{' branch.
quant_brace(p, child) == quant_min(read_digits(cursor_take(p), 0, FALSE), p.i, child)

\* The quantifier looked for after the white space that follows the atom.
parse_quant_after_space(p0, child) ==
    IF p0.error # NULL \/ child = NULL THEN Ret(p0, child)
    ELSE LET p == cursor_skip_ws_and_comments(p0)
             ch == cursor_peek(p, 0)
         IN  IF ch = "*" THEN quant_finish(cursor_take(p), child, 0, -1)
             ELSE IF ch = "+" THEN quant_finish(cursor_take(p), child, 1, -1)
             ELSE IF ch = "?" THEN quant_finish(cursor_take(p), child, 0, 1)
             ELSE IF ch = "{" THEN quant_brace(p, child)
             ELSE Ret(p0, child)

parse_quant_if_any(p, child) ==
    IF p.error # NULL \/ child = NULL THEN Ret(p, child)
    ELSE LET ch == cursor_peek(p, 0)
         IN  IF ch = "*" THEN quant_finish(cursor_take(p), child, 0, -1)
             ELSE IF ch = "+" THEN quant_finish(cursor_take(p), child, 1, -1)
             ELSE IF ch = "?" THEN quant_finish(cursor_take(p), child, 0, 1)
             ELSE IF ch = "{" THEN quant_brace(p, child)
             ELSE Ret(p, child)

(***************************************************************************)
(* Escapes                                                                 *)
(***************************************************************************)

HexDigits == Digits \cup {"a", "b", "c", "d", "e", "f", "A", "B", "C", "D", "E", "F"}

isxdigit(ch) == ch \in HexDigits

\* isdigit(c) ? c - '0' : (tolower(c) - 'a' + 10)
HexVal(c) ==
    CASE isdigit(c) -> DigitVal(c)
      [] c \in {"a", "A"} -> 10 [] c \in {"b", "B"} -> 11 [] c \in {"c", "C"} -> 12
      [] c \in {"d", "D"} -> 13 [] c \in {"e", "E"} -> 14 [] c \in {"f", "F"} -> 15

\* The characters Chr knows by their code.
Charset ==
    {TAB, LF, CR, " ", "#", "(", ")", "*", "+", "0", "1", "9", "?",
     "A", "Z", "a", "z", "{", "|", "}"}

\* (char)val for a value below 256: the character with that code; a code that
\* no character of Charset has is written <n>.
Chr(val) ==
    IF val = 0 THEN NUL
    ELSE IF val = 8 THEN BS
    ELSE IF val = 11 THEN VT
    ELSE IF val = 12 THEN FF
    ELSE IF \E c \in Charset : Ord(c) = val THEN CHOOSE c \in Charset : Ord(c) = val
    ELSE "<" \o ToString(val) \o ">"

\* The hex loops of \x{...} and \u{...}: val = val * 16 + d, in 32 bits.
RECURSIVE read_hex(_, _)
read_hex(p, val) ==
    IF isxdigit(cursor_peek(p, 0))
    THEN read_hex(cursor_take(p), int_mul_add(val, 16, HexVal(cursor_peek(p, 0))))
    ELSE [p |-> p, value |-> val]

\* The numbered backreference loop: it stops at the first digit that takes num
\* past cap_count.
RECURSIVE read_backref(_, _)
read_backref(p, num) ==
    IF isdigit(cursor_peek(p, 0))
    THEN IF int_mul10_add(num, DigitVal(cursor_peek(p, 0))) > p.cap_count
         THEN [p |-> cursor_take(p), undefined |-> TRUE,
               value |-> int_mul10_add(num, DigitVal(cursor_peek(p, 0)))]
         ELSE read_backref(cursor_take(p),
                           int_mul10_add(num, DigitVal(cursor_peek(p, 0))))
    ELSE [p |-> p, value |-> num, undefined |-> FALSE]

\* Lines 759-771: r is what the backreference loop read.
numbered_backref(r, start_pos) ==
    IF r.undefined
    THEN Ret(parser_set_error(r.p, "Backreference to undefined group", start_pos), NULL)
    ELSE Ret(r.p, strling_ast_backref_create(r.value, NoName))

\* The property name r read, then the closing '}': the class item, or NULL with
\* the error set.  In a class the error is at the cursor, outside one at the
\* escape's start.
property_name(r, tp, inClass, start_pos) ==
    IF ~cursor_matches(r.p, <<"}">>)
    THEN Ret(parser_set_error(r.p, "Unterminated \\p{...}",
                              IF inClass THEN r.p.i ELSE start_pos), NULL)
    ELSE Ret(cursor_match(r.p, <<"}">>), strling_class_escape_create(tp, CStr(r.name)))

\* \p{...} and \P{...}, in a class and outside one; p0 is at the 'p'.
unicode_property(p0, inClass, start_pos) ==
    IF ~cursor_matches(cursor_take(p0), <<"{">>)
    THEN Ret(parser_set_error(cursor_take(p0), "Expected '{' after \\p/\\P",
                              IF inClass THEN cursor_take(p0).i ELSE start_pos), NULL)
    ELSE property_name(read_name(cursor_match(cursor_take(p0), <<"{">>), "}", <<>>),
                       cursor_peek(p0, 0), inClass, start_pos)

parse_class_escape(p0) ==
    IF cursor_peek(p0, 0) # BSL
    THEN Ret(parser_set_error(cursor_take(p0), "Expected '\\'", cursor_take(p0).i), NULL)
    ELSE LET p == cursor_take(p0)
             nxt == cursor_peek(p, 0)
         IN  IF nxt \in {"d", "D", "w", "W", "s", "S"}
             THEN Ret(cursor_take(p), strling_class_escape_create(nxt, NoName))
             ELSE IF nxt \in {"p", "P"} THEN unicode_property(p, TRUE, p0.i)
             ELSE IF is_control_escape(nxt)
             THEN Ret(cursor_take(p), strling_class_literal_create(<<control_escape(nxt)>>))
             ELSE IF nxt = "b"
             THEN Ret(cursor_take(p), strling_class_literal_create(<<BS>>))
             ELSE IF nxt = "0"
             THEN Ret(cursor_take(p), strling_class_literal_create(<<NUL>>))
             ELSE Ret(cursor_take(p), strling_class_literal_create(<<nxt>>))

\* Lines 853-864: r is what the hex loop of \x{...} read.
hex_braced(r, start_pos) ==
    IF ~cursor_matches(r.p, <<"}">>)
    THEN Ret(parser_set_error(r.p, "Unterminated \\x{...}", start_pos), NULL)
    ELSE Ret(cursor_match(r.p, <<"}">>),
             strling_ast_lit_create(
                 IF r.value < 128 THEN <<Chr(r.value % 256)>> ELSE <<"?">>))

\* Lines 842-877: \x{...} and \xHH; p is past the 'x'.
hex_escape(p, start_pos) ==
    IF cursor_peek(p, 0) = "{" THEN hex_braced(read_hex(cursor_take(p), 0), start_pos)
    ELSE LET h1 == cursor_peek(p, 0)
             h2 == cursor_peek(cursor_take(p), 0)
         IN  IF ~isxdigit(h1) \/ ~isxdigit(h2)
             THEN Ret(parser_set_error(cursor_take(cursor_take(p)), "Invalid \\xHH escape",
                                       start_pos), NULL)
             ELSE Ret(cursor_take(cursor_take(p)),
                      strling_ast_lit_create(<<Chr(HexVal(h1) * 16 + HexVal(h2))>>))

\* The for loop of \uHHHH: four hex digits, or the error at the first that is none.
RECURSIVE read_u4(_, _, _)
read_u4(p, k, val) ==
    IF k = 4 THEN [p |-> p, value |-> val, ok |-> TRUE]
    ELSE IF ~isxdigit(cursor_peek(p, 0))
    THEN [p |-> cursor_take(p), value |-> val, ok |-> FALSE]
    ELSE read_u4(cursor_take(p), k + 1, val * 16 + HexVal(cursor_peek(p, 0)))

\* Lines 890-895: r is what the hex loop of \u{...} read.
unicode_braced(r, start_pos) ==
    IF ~cursor_matches(r.p, <<"}">>)
    THEN Ret(parser_set_error(r.p, "Unterminated \\u{...}", start_pos), NULL)
    ELSE Ret(cursor_match(r.p, <<"}">>), strling_ast_lit_create(<<"?">>))

\* Lines 898-909: r is what the for loop of \uHHHH read.
unicode_four(r, start_pos) ==
    IF ~r.ok THEN Ret(parser_set_error(r.p, "Invalid \\uHHHH escape", start_pos), NULL)
    ELSE Ret(r.p, strling_ast_lit_create(<<IF r.value < 128 THEN Chr(r.value) ELSE "?">>))

\* Lines 879-911: \u{...} and \uHHHH; p is past the 'u'.
unicode_escape(p, start_pos) ==
    IF cursor_peek(p, 0) = "{" THEN unicode_braced(read_hex(cursor_take(p), 0), start_pos)
    ELSE unicode_four(read_u4(p, 0, 0), start_pos)

\* Lines 792-800: r is the name the loop of \k<name> read.
named_backref_name(r, start_pos) ==
    IF ~cursor_matches(r.p, <<">">>)
    THEN Ret(parser_set_error(r.p, "Unterminated named backref", start_pos), NULL)
    ELSE IF ~has_cap_name(r.p, CStr(r.name))
    THEN Ret(parser_set_error(cursor_match(r.p, <<">">>),
                              "Backreference to undefined group", start_pos), NULL)
    ELSE Ret(cursor_match(r.p, <<">">>), strling_ast_backref_create(-1, CStr(r.name)))

\* Lines 779-801: \k<name>; p0 is at the 'k'.
named_backref(p0, start_pos) ==
    IF ~cursor_matches(cursor_take(p0), <<"<">>)
    THEN Ret(parser_set_error(cursor_take(p0), "Expected '<' after \\k", start_pos), NULL)
    ELSE named_backref_name(read_name(cursor_match(cursor_take(p0), <<"<">>), ">", <<>>),
                            start_pos)

\* Lines 829-832: the class item of \p{...} as a one-item class.
property_atom(r) ==
    IF r.node = NULL THEN r ELSE Ret(r.p, strling_ast_charclass_create(FALSE, <<r.node>>))

parse_escape_atom(p0) ==
    IF cursor_peek(p0, 0) # BSL
    THEN Ret(parser_set_error(cursor_take(p0), "Expected '\\'", cursor_take(p0).i), NULL)
    ELSE LET start_pos == p0.i
             p == cursor_take(p0)
             nxt == cursor_peek(p, 0)
         IN  IF isdigit(nxt) /\ nxt # "0"
             THEN numbered_backref(read_backref(p, 0), start_pos)
             ELSE IF nxt = "b"
             THEN Ret(cursor_take(p), strling_ast_anchor_create("WordBoundary"))
             ELSE IF nxt = "B"
             THEN Ret(cursor_take(p), strling_ast_anchor_create("NotWordBoundary"))
             ELSE IF nxt = "A"
             THEN Ret(cursor_take(p), strling_ast_anchor_create("AbsoluteStart"))
             ELSE IF nxt = "Z"
             THEN Ret(cursor_take(p), strling_ast_anchor_create("EndBeforeFinalNewline"))
             ELSE IF nxt = "k" THEN named_backref(p, start_pos)
             ELSE IF nxt \in {"d", "D", "w", "W", "s", "S"}
             THEN Ret(cursor_take(p),
                      strling_ast_charclass_create(
                          FALSE, <<strling_class_escape_create(nxt, NoName)>>))
             ELSE IF nxt \in {"p", "P"}
             THEN property_atom(unicode_property(p, FALSE, start_pos))
             ELSE IF is_control_escape(nxt)
             THEN Ret(cursor_take(p), strling_ast_lit_create(<<control_escape(nxt)>>))
             ELSE IF nxt = "x" THEN hex_escape(cursor_take(p), start_pos)
             ELSE IF nxt = "u" THEN unicode_escape(cursor_take(p), start_pos)
             ELSE IF nxt = "0"
             THEN Ret(cursor_take(p), strling_ast_lit_create(<<NUL>>))
             ELSE Ret(cursor_take(p), strling_ast_lit_create(<<nxt>>))

(***************************************************************************)
(* Character classes                                                       *)
(***************************************************************************)

\* Lines 644-656: a class item that is no escape: a range or a literal.
class_item(p0) ==
    LET ch == cursor_peek(p0, 0)
        p == cursor_take(p0)
    IN  IF cursor_peek(p, 0) = "-" /\ cursor_peek(p, 1) # "]"
        THEN Ret(cursor_take(cursor_take(p)),
                 strling_class_range_create(<<ch>>, <<cursor_peek(cursor_take(p), 0)>>))
        ELSE Ret(p, strling_class_literal_create(<<ch>>))

RECURSIVE class_loop(_, _, _)

\* Lines 659-666: r is the item read.
class_next(r, neg, items) ==
    IF r.p.error # NULL THEN Ret([r.p EXCEPT !.in_class = @ - 1], NULL)
    ELSE IF r.node = NULL THEN class_loop(r.p, neg, items)
    ELSE class_loop(r.p, neg, Append(items, r.node))

\* The class closed and in_class left as it is.
class_loop_keeps_in_class(p, neg, items) ==
    IF ~cursor_eof(p) /\ cursor_peek(p, 0) # "]"
    THEN class_next(IF cursor_peek(p, 0) = BSL THEN parse_class_escape(p)
                    ELSE class_item(p), neg, items)
    ELSE IF cursor_eof(p)
    THEN Ret([parser_set_error(p, "Unterminated character class", p.i)
                  EXCEPT !.in_class = @ - 1], NULL)
    ELSE Ret(cursor_take(p), strling_ast_charclass_create(neg, items))

\* Lines 638-686: the item loop, then the closing ']'.
class_loop(p, neg, items) ==
    IF ~cursor_eof(p) /\ cursor_peek(p, 0) # "]"
    THEN class_next(IF cursor_peek(p, 0) = BSL THEN parse_class_escape(p)
                    ELSE class_item(p), neg, items)
    ELSE IF cursor_eof(p)
    THEN Ret([parser_set_error(p, "Unterminated character class", p.i)
                  EXCEPT !.in_class = @ - 1], NULL)
    ELSE Ret([cursor_take(p) EXCEPT !.in_class = @ - 1],
             strling_ast_charclass_create(neg, items))

\* Lines 626-632: in_class++, and the '^' of a negated class.
class_open(p) ==
    IF cursor_peek(p, 0) = "^" THEN class_loop(cursor_take(p), TRUE, <<>>)
    ELSE class_loop(p, FALSE, <<>>)

parse_char_class(p0) ==
    IF cursor_peek(p0, 0) # "["
    THEN Ret(parser_set_error(cursor_take(p0), "Expected '['", cursor_take(p0).i), NULL)
    ELSE class_open([cursor_take(p0) EXCEPT !.in_class = @ + 1])

(***************************************************************************)
(* Alternations, sequences, atoms, groups                                  *)
(***************************************************************************)

RECURSIVE parse_alt(_), parse_seq_loop(_, _), alt_loop(_, _)

\* The node each branch of parse_group_or_look returns for its body.
make_node(construct, name, body) ==
    CASE construct = "noncapturing" -> strling_ast_group_create(FALSE, body, NoName, FALSE)
      [] construct = "behind" -> strling_ast_look_create("Behind", FALSE, body)
      [] construct = "not_behind" -> strling_ast_look_create("Behind", TRUE, body)
      [] construct = "named" -> strling_ast_group_create(TRUE, body, name, FALSE)
      [] construct = "atomic" -> strling_ast_group_create(FALSE, body, NoName, TRUE)
      [] construct = "ahead" -> strling_ast_look_create("Ahead", FALSE, body)
      [] construct = "not_ahead" -> strling_ast_look_create("Ahead", TRUE, body)
      [] construct = "capturing" -> strling_ast_group_create(TRUE, body, NoName, FALSE)

\* The node made whether a ')' follows the body or not.
group_close_unclosed(body, unterminated, construct, name) ==
    IF body.p.error # NULL THEN Ret(body.p, NULL)
    ELSE Ret(cursor_match(body.p, <<")">>), make_node(construct, name, body.node))

\* What every branch of parse_group_or_look does once parse_alt has returned
\* body: the closing ')' or the branch's diagnostic.
group_close(body, unterminated, construct, name) ==
    IF body.p.error # NULL THEN Ret(body.p, NULL)
    ELSE IF ~cursor_matches(body.p, <<")">>)
    THEN Ret(parser_set_error(body.p, unterminated, body.p.i), NULL)
    ELSE Ret(cursor_match(body.p, <<")">>), make_node(construct, name, body.node))

group_body(p, unterminated, construct, name) ==
    group_close(parse_alt(p), unterminated, construct, name)

\* The name check left out.
named_group_declare_unchecked(q, name) ==
    group_body(add_cap_name([q EXCEPT !.cap_count = @ + 1], name),
               "Unterminated group", "named", name)

\* The name counted and not recorded.
named_group_declare_unrecorded(q, name) ==
    IF has_cap_name(q, name)
    THEN Ret(parser_set_error(q, "Duplicate group name", q.i), NULL)
    ELSE group_body([q EXCEPT !.cap_count = @ + 1], "Unterminated group", "named", name)

\* The name recorded and not counted.
named_group_declare_uncounted(q, name) ==
    IF has_cap_name(q, name)
    THEN Ret(parser_set_error(q, "Duplicate group name", q.i), NULL)
    ELSE group_body(add_cap_name(q, name), "Unterminated group", "named", name)

\* Lines 555-570: the name is new, or the parse fails.
named_group_declare(q, name) ==
    IF has_cap_name(q, name)
    THEN Ret(parser_set_error(q, "Duplicate group name", q.i), NULL)
    ELSE group_body(add_cap_name([q EXCEPT !.cap_count = @ + 1], name),
                    "Unterminated group", "named", name)

\* Lines 548-553: r is the name the loop read.
named_group_name(r) ==
    IF ~cursor_matches(r.p, <<">">>)
    THEN Ret(parser_set_error(r.p, "Unterminated group name", r.p.i), NULL)
    ELSE named_group_declare(Logged(cursor_match(r.p, <<">">>),
                                    <<"group_name", CStr(r.name)>>), CStr(r.name))

\* Lines 541-571: the named capturing group; p is past "?<".
named_group(p) == named_group_name(read_name(p, ">", <<>>))

\* The "?<" of a group name looked for before the "?<=" and "?<!" of a lookbehind.
parse_group_or_look_name_first(p0) ==
    IF cursor_peek(p0, 0) # "("
    THEN Ret(parser_set_error(cursor_take(p0), "Expected '('", cursor_take(p0).i), NULL)
    ELSE LET p == cursor_take(p0)
         IN  IF cursor_matches(p, <<"?", ":">>)
             THEN group_body(cursor_match(p, <<"?", ":">>), "Unterminated group",
                             "noncapturing", NoName)
             ELSE IF cursor_matches(p, <<"?", "<">>)
             THEN named_group(cursor_match(p, <<"?", "<">>))
             ELSE IF cursor_matches(p, <<"?", "<", "=">>)
             THEN group_body(cursor_match(p, <<"?", "<", "=">>), "Unterminated lookbehind",
                             "behind", NoName)
             ELSE IF cursor_matches(p, <<"?", "<", "!">>)
             THEN group_body(cursor_match(p, <<"?", "<", "!">>), "Unterminated lookbehind",
                             "not_behind", NoName)
             ELSE IF cursor_matches(p, <<"?", ">">>)
             THEN group_body(cursor_match(p, <<"?", ">">>), "Unterminated atomic group",
                             "atomic", NoName)
             ELSE IF cursor_matches(p, <<"?", "=">>)
             THEN group_body(cursor_match(p, <<"?", "=">>), "Unterminated lookahead",
                             "ahead", NoName)
             ELSE IF cursor_matches(p, <<"?", "!">>)
             THEN group_body(cursor_match(p, <<"?", "!">>), "Unterminated lookahead",
                             "not_ahead", NoName)
             ELSE group_body([p EXCEPT !.cap_count = @ + 1], "Unterminated group",
                             "capturing", NoName)

parse_group_or_look(p0) ==
    IF cursor_peek(p0, 0) # "("
    THEN Ret(parser_set_error(cursor_take(p0), "Expected '('", cursor_take(p0).i), NULL)
    ELSE LET p == cursor_take(p0)
         IN  IF cursor_matches(p, <<"?", ":">>)
             THEN group_body(cursor_match(p, <<"?", ":">>), "Unterminated group",
                             "noncapturing", NoName)
             ELSE IF cursor_matches(p, <<"?", "<", "=">>)
             THEN group_body(cursor_match(p, <<"?", "<", "=">>), "Unterminated lookbehind",
                             "behind", NoName)
             ELSE IF cursor_matches(p, <<"?", "<", "!">>)
             THEN group_body(cursor_match(p, <<"?", "<", "!">>), "Unterminated lookbehind",
                             "not_behind", NoName)
             ELSE IF cursor_matches(p, <<"?", "<">>)
             THEN named_group(cursor_match(p, <<"?", "<">>))
             ELSE IF cursor_matches(p, <<"?", ">">>)
             THEN group_body(cursor_match(p, <<"?", ">">>), "Unterminated atomic group",
                             "atomic", NoName)
             ELSE IF cursor_matches(p, <<"?", "=">>)
             THEN group_body(cursor_match(p, <<"?", "=">>), "Unterminated lookahead",
                             "ahead", NoName)
             ELSE IF cursor_matches(p, <<"?", "!">>)
             THEN group_body(cursor_match(p, <<"?", "!">>), "Unterminated lookahead",
                             "not_ahead", NoName)
             ELSE group_body([p EXCEPT !.cap_count = @ + 1], "Unterminated group",
                             "capturing", NoName)

\* A ')' returned as an atom, and the cursor left before it.
atom_at_close_not_taken(p) ==
    LET ch == cursor_peek(p, 0)
    IN  IF ch = NUL THEN Ret(p, NULL)
        ELSE IF ch = "." THEN Ret(cursor_take(p), strling_ast_dot_create)
        ELSE IF ch = "^" THEN Ret(cursor_take(p), strling_ast_anchor_create("Start"))
        ELSE IF ch = "$" THEN Ret(cursor_take(p), strling_ast_anchor_create("End"))
        ELSE IF ch = "(" THEN parse_group_or_look(p)
        ELSE IF ch = "[" THEN parse_char_class(p)
        ELSE IF ch = BSL THEN parse_escape_atom(p)
        ELSE IF ch = ")" THEN Ret(p, strling_ast_lit_create(<<ch>>))
        ELSE IF ch = "|" THEN Ret(p, NULL)
        ELSE Ret(Logged(cursor_take(p), <<"literal", p.i, ch>>),
                 strling_ast_lit_create(<<ch>>))

\* Lines 381-416 of parse_atom: p is past the whitespace skipped.
atom_at(p) ==
    LET ch == cursor_peek(p, 0)
    IN  IF ch = NUL THEN Ret(p, NULL)
        ELSE IF ch = "." THEN Ret(cursor_take(p), strling_ast_dot_create)
        ELSE IF ch = "^" THEN Ret(cursor_take(p), strling_ast_anchor_create("Start"))
        ELSE IF ch = "$" THEN Ret(cursor_take(p), strling_ast_anchor_create("End"))
        ELSE IF ch = "(" THEN parse_group_or_look(p)
        ELSE IF ch = "[" THEN parse_char_class(p)
        ELSE IF ch = BSL THEN parse_escape_atom(p)
        ELSE IF ch = ")" THEN Ret(parser_set_error(p, "Unmatched ')'", p.i), NULL)
        ELSE IF ch = "|" THEN Ret(p, NULL)
        ELSE Ret(Logged(cursor_take(p), <<"literal", p.i, ch>>),
                 strling_ast_lit_create(<<ch>>))

parse_atom(p) ==
    IF p.error # NULL THEN Ret(p, NULL) ELSE atom_at(cursor_skip_ws_and_comments(p))

\* No node for a sequence of no parts.
seq_result_nonempty(parts) ==
    IF Len(parts) = 0 THEN NULL
    ELSE IF Len(parts) = 1 THEN parts[1]
    ELSE strling_ast_seq_create(parts)

\* A Seq for the parts, however many.
seq_result_always_seq(parts) == strling_ast_seq_create(parts)

\* Lines 358-369 of parse_seq: the node for the parts read.
seq_result(parts) ==
    IF Len(parts) = 0 THEN strling_ast_seq_create(<<>>)
    ELSE IF Len(parts) = 1 THEN parts[1]
    ELSE strling_ast_seq_create(parts)

\* Lines 346-355: q is what parse_quant_if_any returned.
seq_quant(q, parts) ==
    IF q.p.error # NULL THEN Ret(q.p, NULL)
    ELSE parse_seq_loop(q.p, Append(parts, q.node))

\* Lines 342-345: atom is what parse_atom returned.
seq_atom(atom, parts) ==
    IF atom.p.error # NULL THEN Ret(atom.p, NULL)
    ELSE IF atom.node = NULL THEN Ret(atom.p, seq_result(parts))
    ELSE seq_quant(parse_quant_if_any(atom.p, atom.node), parts)

\* A quantifier character with no part before it read as an atom.
seq_step_unchecked(p, parts) ==
    IF cursor_peek(p, 0) \in {NUL, "|", ")"} THEN Ret(p, seq_result(parts))
    ELSE seq_atom(parse_atom(p), parts)

\* Lines 331-341: p is past the whitespace skipped.
seq_step(p, parts) ==
    IF cursor_peek(p, 0) \in {"*", "+", "?", "{"} /\ Len(parts) = 0
    THEN Ret(parser_set_error(p, "Invalid quantifier - nothing to quantify", p.i), NULL)
    ELSE IF cursor_peek(p, 0) \in {NUL, "|", ")"} THEN Ret(p, seq_result(parts))
    ELSE seq_atom(parse_atom(p), parts)

\* Lines 329-356 of parse_seq: one iteration of while (1).
parse_seq_loop(p, parts) == seq_step(cursor_skip_ws_and_comments(p), parts)

parse_seq(p) == IF p.error # NULL THEN Ret(p, NULL) ELSE parse_seq_loop(p, <<>>)

\* Lines 303-314: branch is what parse_seq returned.
alt_branch(branch, branches) ==
    IF branch.p.error # NULL \/ branch.node = NULL THEN Ret(branch.p, NULL)
    ELSE alt_loop(cursor_skip_ws_and_comments(branch.p), Append(branches, branch.node))

\* Lines 295-302: p is past the '|' and the whitespace after it.
alt_rhs(p, branches) ==
    IF cursor_eof(p) \/ cursor_peek(p, 0) = "|"
    THEN Ret(parser_set_error(p, "Alternation lacks right-hand side", p.i), NULL)
    ELSE alt_branch(parse_seq(p), branches)

\* Lines 291-319 of parse_alt: one iteration of while (peek == '|'), then the Alt.
alt_loop(p, branches) ==
    IF cursor_peek(p, 0) = "|"
    THEN alt_rhs(cursor_skip_ws_and_comments(cursor_take(p)), branches)
    ELSE Ret(p, strling_ast_alt_create(branches))

\* Lines 280-289: q is past the whitespace after the first branch.
alt_more(q, first) ==
    IF cursor_peek(q, 0) # "|" THEN Ret(q, first) ELSE alt_loop(q, <<first>>)

\* Lines 275-281: first is what parse_seq returned.
alt_first(first) ==
    IF first.p.error # NULL \/ first.node = NULL THEN Ret(first.p, NULL)
    ELSE alt_more(cursor_skip_ws_and_comments(first.p), first.node)

\* Lines 265-275: p is past the whitespace skipped.
alt_lhs(p) ==
    IF cursor_peek(p, 0) = "|"
    THEN Ret(parser_set_error(p, "Alternation lacks left-hand side", p.i), NULL)
    ELSE alt_first(parse_seq(p))

parse_alt(p) ==
    IF p.error # NULL THEN Ret(p, NULL) ELSE alt_lhs(cursor_skip_ws_and_comments(p))

\* Trailing input reported, and the node returned all the same.
parse_trailing_keeps_node(p, node) ==
    IF ~cursor_eof(p)
    THEN IF cursor_peek(p, 0) = ")"
         THEN Ret(parser_set_error(p, "Unmatched ')'", p.i), node)
         ELSE Ret(parser_set_error(p, "Unexpected trailing input", p.i), node)
    ELSE Ret(p, node)

\* The end of input not looked for.
parse_trailing_unchecked(p, node) == Ret(p, node)

\* Lines 249-259: p is past the whitespace skipped, node what parse_alt returned.
parse_trailing(p, node) ==
    IF ~cursor_eof(p)
    THEN IF cursor_peek(p, 0) = ")"
         THEN Ret(parser_set_error(p, "Unmatched ')'", p.i), NULL)
         ELSE Ret(parser_set_error(p, "Unexpected trailing input", p.i), NULL)
    ELSE Ret(p, node)

\* Lines 244-248: r is what parse_alt returned.
parse_end(r) ==
    IF r.p.error # NULL THEN Ret(r.p, NULL)
    ELSE parse_trailing(cursor_skip_ws_and_comments(r.p), r.node)

parser_parse(p) == parse_end(parse_alt(p))

(***************************************************************************)
(* Public API                                                              *)
(***************************************************************************)

\* Lines 937-939: the STRlingParseResult, and the Parser as parser_parse left it.
parse_outcome(flags, r) ==
    [parser |-> r.p, result |-> [flags |-> flags, root |-> r.node, error |-> r.p.error]]

\* Lines 937-938: the flags of the Parser parser_init made, then parser_parse.
parse_with(p) == parse_outcome(p.flags, parser_parse(p))

NoResult == [flags |-> NoFlags, root |-> NULL, error |-> NULL]

strling_parse_returns(outcome) ==
    /\ result' = outcome.result
    /\ parser' = outcome.parser

strling_parse ==
    /\ pc = "ready"
    /\ strling_parse_returns(parse_with(parser_init(text)))
    /\ pc' = "parsed"
    /\ UNCHANGED text

strling_parse_result_free ==
    /\ pc = "parsed"
    /\ result' = NoResult
    /\ pc' = "freed"
    /\ UNCHANGED <<text, parser>>

Next == strling_parse \/ strling_parse_result_free

(***************************************************************************)
(* The texts parsed: every concatenation of at most n tokens of a          *)
(* vocabulary, and some longer texts picked by hand.  Each family of texts *)
(* has its own vocabulary, so that short texts reach the constructs it is  *)
(* about.                                                                  *)
(***************************************************************************)

RECURSIVE Texts(_, _)
Texts(Tokens, n) ==
    IF n = 0 THEN {<<>>}
    ELSE LET shorter == Texts(Tokens, n - 1)
         IN  shorter \cup {t \o tok : t \in shorter, tok \in Tokens}

InitWith(texts) ==
    /\ text \in texts
    /\ pc = "ready"
    /\ result = NoResult
    /\ parser = NULL

\* A mix of everything: literals, groups, alternation, quantifiers, classes,
\* escapes, anchors.
MaxTokens == 4

Tokens ==
    {<<"a">>, <<"(">>, <<"(", "?", "<", "n", ">">>, <<")">>, <<"|">>, <<"*">>, <<"{">>,
     <<"[">>, <<"]">>, <<BSL>>, <<"^">>}

MoreTexts ==
    {<<"(", "a", "|", "(", "a", "|", ")", ")">>,
     <<"%", "f", "l", "a", "g", "s", " ", "x", LF, "a", " ", "|", " ", "#", "c">>,
     <<"(", "?", "<", "n", ">", "a", ")", "(", "?", ":", BSL, "k", "<", "n", ">", "|", ")">>,
     <<"[", "a", "-", "z", "]", "{", "2", ",", "x">>,
     <<"(", "?", "=", "a", ")", BSL, "x", "4", "g">>}

Init == InitWith(Texts(Tokens, MaxTokens) \cup MoreTexts)

Spec == Init /\ [][Next]_vars

\* Named groups and named backreferences.  In these texts every "(" opens a
\* group and every "\" starts a \k<name>.
MaxGroupTokens == 4

GroupTokens ==
    {<<"(">>, <<"(", "?", ":">>, <<"(", "?", "<", "a", ">">>, <<"(", "?", "<", "b", ">">>,
     <<")">>, <<BSL, "k", "<", "a", ">">>, <<BSL, "k", "<", "b", ">">>, <<"x">>, <<"|">>}

MoreGroupTexts ==
    {<<"(", "?", "<", "a", "b", ">", "x", ")", BSL, "k", "<", "a", ">">>,
     <<"(", "?", "<", "a", ">", "x", ")", BSL, "k", "<", "a", "b", ">">>,
     <<"(", "?", "<", "a", "b", ">", "x", ")", "(", "?", "<", "a", ">", ")", "(", "?", "<",
       "a", "b", ">", ")">>,
     <<"(", "?", "<", "a", ">", "(", "?", "<", "b", ">", BSL, "k", "<", "a", ">", ")", ")",
       BSL, "k", "<", "b", ">">>}

InitGroups == InitWith(Texts(GroupTokens, MaxGroupTokens) \cup MoreGroupTexts)

SpecGroups == InitGroups /\ [][Next]_vars

\* Numbered backreferences among groups of every kind.  In these texts every
\* "(" opens a group or a lookaround and every "\" starts a \N.
MaxBackrefTokens == 4

BackrefTokens ==
    {<<"(">>, <<"(", "?", ":">>, <<"(", "?", ">">>, <<"(", "?", "=">>, <<"(", "?", "<", "!">>,
     <<"(", "?", "<", "a", ">">>, <<")">>, <<BSL, "1">>, <<BSL, "2">>, <<"0">>}

MoreBackrefTexts ==
    {<<"(", "(", "?", ":", BSL, "1", ")", ")">>,
     <<"(", "(", BSL, "2", ")", ")">>,
     <<"(", ")", "(", ")", BSL, "2", BSL, "3">>,
     <<"(", "?", "<", "=", "(", "?", "!", "(", "?", ">", BSL, "1", ")", ")", ")">>,
     <<"(", ")", "(", "?", "<", "a", ">", ")", BSL, "2", "0">>}

InitBackrefs == InitWith(Texts(BackrefTokens, MaxBackrefTokens) \cup MoreBackrefTexts)

SpecBackrefs == InitBackrefs /\ [][Next]_vars

\* Character classes, one character a token.
MaxClassTokens == 5

ClassTokens == {<<"[">>, <<"]">>, <<"a">>, <<"z">>, <<"-">>, <<"^">>, <<BSL>>}

InitClass == InitWith(Texts(ClassTokens, MaxClassTokens))

SpecClass == InitClass /\ [][Next]_vars

\* Quantifiers after literals and after anchors.  In these texts every "^" is
\* an anchor atom and every "\" starts one.
MaxQuantTokens == 4

QuantTokens ==
    {<<"a">>, <<"^">>, <<BSL, "b">>, <<"*">>, <<"?">>, <<"{">>, <<"}">>, <<"1">>, <<",">>,
     <<"{", "2", ",">>, <<"z">>}

MoreQuantTexts ==
    {<<"$", "+">>, <<BSL, "B", "+", "?">>, <<BSL, "A", "?">>, <<BSL, "Z", "{", "1", "}">>,
     <<"a", "{", "3", ",", "1", "}", "+">>, <<"a", "^", "{", "1", ",", "2", "}", "?">>,
     <<"a", "{", "1", "}", "{", ",", "}">>, <<"a", "+", "$">>}

InitQuant == InitWith(Texts(QuantTokens, MaxQuantTokens) \cup MoreQuantTexts)

SpecQuant == InitQuant /\ [][Next]_vars

\* A %flags directive at the start of the text, then at most MaxFlagChars
\* characters: separators, known and unknown letters, the end of the line.
MaxFlagChars == 4

FlagChars ==
    {<<" ">>, <<"[">>, <<"]">>, <<",">>, <<"i">>, <<"M">>, <<"x">>, <<"z">>, <<LF>>, <<"a">>}

InitFlags == InitWith({FLAGS_DIRECTIVE \o t : t \in Texts(FlagChars, MaxFlagChars)})

SpecFlags == InitFlags /\ [][Next]_vars

(***************************************************************************)
(* Reading an AST and the parser's history                                 *)
(***************************************************************************)

\* The nodes directly below a node.
Children(node) ==
    CASE node.type = "Seq" -> node.parts
      [] node.type = "Alt" -> node.branches
      [] node.type = "Quant" -> <<node.child>>
      [] node.type \in {"Group", "Look"} -> <<node.body>>
      [] OTHER -> <<>>

\* Every node of a tree, in source order (a node before the nodes below it).
RECURSIVE NodesOf(_), NodesOfAll(_)
NodesOf(node) == <<node>> \o NodesOfAll(Children(node))
NodesOfAll(nodes) ==
    IF nodes = <<>> THEN <<>> ELSE NodesOf(Head(nodes)) \o NodesOfAll(Tail(nodes))

Range(seq) == {seq[k] : k \in DOMAIN seq}

Min(S) == CHOOSE x \in S : \A y \in S : x <= y

Parsed == pc = "parsed"
Succeeded == Parsed /\ result.root # NULL
Failed == Parsed /\ result.error # NULL

\* The parser_set_error calls of the parse, in order.
SetErrorCalls == SelectSeq(parser.log, LAMBDA e : e[1] = "set_error")

\* The parse failed with this diagnostic, or it failed before its cursor went
\* past offset limit.
FailsBy(message, position, limit) ==
    /\ result.root = NULL
    /\ result.error # NULL
    /\ \/ result.error = [message |-> message, position |-> position]
       \/ parser.i <= limit

(***************************************************************************)
(* Reading a text, by offsets from 0 as the parser counts them             *)
(***************************************************************************)

At(t, o) == IF o >= 0 /\ o < Len(t) THEN t[o + 1] ELSE NUL

StartsAt(t, o, s) ==
    o >= 0 /\ o + Len(s) <= Len(t) /\ SubSeq(t, o + 1, o + Len(s)) = s

Offsets(t) == 0 .. (Len(t) - 1)

\* The offset of the first close at or after o; -1 when there is none.
RECURSIVE Until(_, _, _)
Until(t, o, close) ==
    IF o >= Len(t) THEN -1 ELSE IF t[o + 1] = close THEN o ELSE Until(t, o + 1, close)

\* The name that starts at offset o and ends before the next ">".
NameAt(t, o) == SubSeq(t, o + 1, Until(t, o, ">"))

\* The offsets where a text declares a named group, "(?<name>".
GroupNameOpens(t) ==
    {o \in Offsets(t) : /\ StartsAt(t, o, <<"(", "?", "<">>)
                        /\ At(t, o + 3) \notin {"=", "!"}
                        /\ Until(t, o + 3, ">") # -1}

\* The offsets where a text refers to a named group, "\k<name>".
NamedBackrefs(t) ==
    {o \in Offsets(t) : StartsAt(t, o, <<BSL, "k", "<">>) /\ Until(t, o + 3, ">") # -1}

\* The offsets where a text opens a capturing group, named or unnamed.
CapturingOpens(t) ==
    {o \in Offsets(t) : At(t, o) = "(" /\ At(t, o + 1) # "?"} \cup GroupNameOpens(t)

\* The offsets where a text refers to a group by number, "\N".
NumberedBackrefs(t) ==
    {o \in Offsets(t) : At(t, o) = BSL /\ At(t, o + 1) \in Digits \ {"0"}}

\* The number that the digits from offset o on write, after the digits read as n.
RECURSIVE NumberAt(_, _, _)
NumberAt(t, o, n) ==
    IF At(t, o) \in Digits THEN NumberAt(t, o + 1, 10 * n + DigitVal(At(t, o))) ELSE n

\* The offset after the digits that start at offset o.
RECURSIVE AfterDigits(_, _)
AfterDigits(t, o) == IF At(t, o) \in Digits THEN AfterDigits(t, o + 1) ELSE o

\* The offset after the complete quantifier that starts at offset o: "*", "+",
\* "?", "{m}", "{m,}" or "{m,n}"; -1 when none starts there.
QuantEnd(t, o) ==
    IF At(t, o) \in {"*", "+", "?"} THEN o + 1
    ELSE IF At(t, o) = "{" /\ At(t, o + 1) \in Digits
    THEN LET m == AfterDigits(t, o + 1)
             n == IF At(t, m) = "," THEN AfterDigits(t, m + 1) ELSE m
         IN  IF At(t, n) = "}" THEN n + 1 ELSE -1
    ELSE -1

\* The offset after the anchor that starts at offset o; -1 when none starts there.
AnchorEnd(t, o) ==
    IF At(t, o) \in {"^", "$"} THEN o + 1
    ELSE IF At(t, o) = BSL /\ At(t, o + 1) \in {"b", "B", "A", "Z"} THEN o + 2
    ELSE -1

(***************************************************************************)
(* C1: strling_parse returns exactly one of root and error: a root and no  *)
(* error, or one diagnostic and a NULL root.                               *)
(***************************************************************************)
C1_RootXorError == Parsed => ((result.root = NULL) # (result.error = NULL))

\* A parse that had built nodes when it failed.
C1_Witness ==
    /\ Failed
    /\ result.root = NULL
    /\ \E k \in DOMAIN parser.log : parser.log[k][1] = "literal"

(***************************************************************************)
(* C2: the diagnostic strling_parse returns is that of the first           *)
(* parser_set_error call of the parse, whatever the parse did after it;    *)
(* with no such call there is no diagnostic.                               *)
(***************************************************************************)
C2_FirstErrorLatched ==
    Parsed =>
        IF SetErrorCalls = <<>> THEN result.error = NULL
        ELSE result.error = [message |-> SetErrorCalls[1][2],
                             position |-> SetErrorCalls[1][3]]

\* A diagnostic raised inside a group that is itself never closed: the parser
\* unwinds through the group without reporting "Unterminated group".
C2_Witness ==
    /\ Failed
    /\ text = <<"(", "a", "|">>
    /\ result.error = [message |-> "Alternation lacks right-hand side", position |-> 3]

(***************************************************************************)
(* C3: a text in which a named group reuses the name of an earlier named   *)
(* group fails, with "Duplicate group name" at the first reuse unless the  *)
(* parse failed before it; and the named groups of a returned AST have     *)
(* pairwise distinct names.                                                *)
(***************************************************************************)

\* The declarations of a text that reuse the name of a declaration to their left.
DuplicateOpens(t) ==
    {o \in GroupNameOpens(t) :
        \E d \in GroupNameOpens(t) : d < o /\ NameAt(t, d + 3) = NameAt(t, o + 3)}

\* The names of the named groups of an AST, in source order.
GroupNamesOf(root) ==
    LET named == SelectSeq(NodesOf(root),
                           LAMBDA n : n.type = "Group" /\ n.name # NoName)
    IN  [k \in DOMAIN named |-> named[k].name]

C3_DuplicateGroupName ==
    Parsed =>
        /\ DuplicateOpens(text) # {} =>
               LET o == Min(DuplicateOpens(text))
               IN  FailsBy("Duplicate group name", Until(text, o + 3, ">") + 1, o)
        /\ \A k \in DOMAIN parser.log :
               (/\ parser.log[k][1] = "group_name"
                /\ \E j \in 1 .. (k - 1) : parser.log[j] = parser.log[k])
               => /\ result.root = NULL
                  /\ result.error # NULL
                  /\ result.error.message = "Duplicate group name"
        /\ Succeeded =>
               LET names == GroupNamesOf(result.root)
               IN  \A j, k \in DOMAIN names : j # k => names[j] # names[k]

\* (?<a>)(?<a>): the second declaration is refused where its name ends.
C3_Witness ==
    /\ Parsed
    /\ text = <<"(", "?", "<", "a", ">", ")", "(", "?", "<", "a", ">", ")">>
    /\ DuplicateOpens(text) = {6}
    /\ result.root = NULL
    /\ result.error = [message |-> "Duplicate group name", position |-> 11]

(***************************************************************************)
(* C4: every Range item of a returned AST has codepoint(from) <=           *)
(* codepoint(to): a class with a reversed range such as [z-a] is refused.  *)
(***************************************************************************)

\* The Range items of the classes of an AST.
RangesOf(root) ==
    LET classes == SelectSeq(NodesOf(root), LAMBDA n : n.type = "CharClass")
    IN  UNION {{c.items[k] : k \in {j \in DOMAIN c.items : c.items[j].type = "Range"}} :
               c \in Range(classes)}

C4_RangesOrdered ==
    Succeeded =>
        \A r \in RangesOf(result.root) :
            (Len(r.from) = 1 /\ Len(r.to) = 1) => Ord(r.from[1]) <= Ord(r.to[1])

(***************************************************************************)
(* C5: a numbered backreference \N is accepted if and only if N is at most *)
(* the number of capturing groups, named or unnamed, opened to its left    *)
(* (closed or not); non-capturing groups, atomic groups and lookarounds do *)
(* not count.  A text with a reference past that count fails, with         *)
(* "Backreference to undefined group" at the first such reference unless   *)
(* the parse failed before it; and that diagnostic at a reference means    *)
(* the reference is past the count.                                        *)
(***************************************************************************)

\* The number of capturing groups opened to the left of offset o.
CapturesBefore(t, o) == Cardinality({g \in CapturingOpens(t) : g < o})

\* The numbered backreferences of a text past the capturing groups to their left.
UndefinedNumbered(t) ==
    {o \in NumberedBackrefs(t) : NumberAt(t, o + 1, 0) > CapturesBefore(t, o)}

C5_NumberedBackref ==
    Parsed =>
        /\ UndefinedNumbered(text) # {} =>
               LET o == Min(UndefinedNumbered(text))
               IN  FailsBy("Backreference to undefined group", o, o)
        /\ (/\ result.error # NULL
            /\ result.error.message = "Backreference to undefined group")
           => result.error.position \in UndefinedNumbered(text)
        /\ Succeeded =>
               \A o \in NumberedBackrefs(text) :
                   NumberAt(text, o + 1, 0) <= CapturesBefore(text, o)

\* ((?:\1)): a reference to the group that encloses it, through a group that
\* does not count.
C5_Witness ==
    /\ Succeeded
    /\ text = <<"(", "(", "?", ":", BSL, "1", ")", ")">>
    /\ CapturesBefore(text, 4) = 1
    /\ result.root =
           strling_ast_group_create(TRUE,
               strling_ast_group_create(FALSE, strling_ast_backref_create(1, NoName),
                                        NoName, FALSE),
               NoName, FALSE)

(***************************************************************************)
(* C6: a named backreference \k<name> is accepted if and only if a named   *)
(* group of exactly that name is opened to its left (closed or not).  A    *)
(* text with a reference to a name not yet declared fails, with            *)
(* "Backreference to undefined group" at the first such reference unless   *)
(* the parse failed before it; and that diagnostic at a reference means    *)
(* its name is not declared to its left.                                   *)
(***************************************************************************)

\* The named backreferences of a text with no declaration of their name to
\* their left.
UndefinedNamed(t) ==
    {o \in NamedBackrefs(t) :
        ~\E d \in GroupNameOpens(t) : d < o /\ NameAt(t, d + 3) = NameAt(t, o + 3)}

C6_NamedBackref ==
    Parsed =>
        /\ UndefinedNamed(text) # {} =>
               LET o == Min(UndefinedNamed(text))
               IN  FailsBy("Backreference to undefined group", o, o)
        /\ (/\ result.error # NULL
            /\ result.error.message = "Backreference to undefined group")
           => result.error.position \in UndefinedNamed(text)
        /\ Succeeded => UndefinedNamed(text) = {}

\* (?<a>\k<a>): a reference to the group that encloses it.
C6_Witness ==
    /\ Succeeded
    /\ text = <<"(", "?", "<", "a", ">", BSL, "k", "<", "a", ">", ")">>
    /\ NamedBackrefs(text) = {5}
    /\ result.root =
           strling_ast_group_create(TRUE, strling_ast_backref_create(-1, <<"a">>),
                                    <<"a">>, FALSE)

(***************************************************************************)
(* C7: every Quant node of a returned AST has min <= max when max is       *)
(* finite (max = -1 is infinity).                                          *)
(***************************************************************************)
C7_QuantBounds ==
    Succeeded =>
        \A k \in DOMAIN NodesOf(result.root) :
            LET n == NodesOf(result.root)[k]
            IN  n.type = "Quant" => (n.max = -1 \/ n.min <= n.max)

(***************************************************************************)
(* C8: a "{" after an atom that no digit follows is no quantifier:         *)
(* parse_quant_if_any returns the atom as it is, with the cursor back on   *)
(* the "{" and no diagnostic, and the next atom the parser reads is the    *)
(* one-character Literal "{" at that offset.                               *)
(***************************************************************************)

\* The Parser of the parse, put at offset o as it is before any diagnostic.
ParserAt(o) == [parser EXCEPT !.i = o, !.error = NULL, !.log = <<>>]

C8_BraceBacktrack ==
    Parsed =>
        /\ \A o \in Offsets(parser.src) :
               (At(parser.src, o) = "{" /\ At(parser.src, o + 1) \notin Digits) =>
                   LET child == strling_ast_lit_create(<<"a">>)
                       r == parse_quant_if_any(ParserAt(o), child)
                   IN  /\ r.node = child
                       /\ r.p.i = o
                       /\ r.p.error = NULL
        /\ \A k \in DOMAIN parser.log :
               parser.log[k][1] = "backtrack" =>
                   /\ k < Len(parser.log)
                   /\ parser.log[k + 1] = <<"literal", parser.log[k][2], "{">>

\* a{z} is the four literals a, {, z, }.
C8_Witness ==
    /\ Succeeded
    /\ text = <<"a", "{", "z", "}">>
    /\ \E k \in DOMAIN parser.log : parser.log[k] = <<"backtrack", 1>>
    /\ result.root =
           strling_ast_seq_create(<<strling_ast_lit_create(<<"a">>),
                                    strling_ast_lit_create(<<"{">>),
                                    strling_ast_lit_create(<<"z">>),
                                    strling_ast_lit_create(<<"}">>)>>)

(***************************************************************************)
(* C9: a text in which a complete quantifier follows an anchor at once     *)
(* fails, with "Cannot quantify anchor" after the first such quantifier    *)
(* unless the parse failed before it; whenever the parser reads a          *)
(* quantifier after an Anchor node the parse fails with that diagnostic;   *)
(* and no Quant node of a returned AST has an Anchor as its child.         *)
(***************************************************************************)

\* The offsets of the anchors of a text that a complete quantifier follows.
QuantifiedAnchors(t) ==
    {o \in Offsets(t) : AnchorEnd(t, o) # -1 /\ QuantEnd(t, AnchorEnd(t, o)) # -1}

C9_AnchorNotQuantified ==
    Parsed =>
        /\ QuantifiedAnchors(text) # {} =>
               LET o == Min(QuantifiedAnchors(text))
               IN  FailsBy("Cannot quantify anchor", QuantEnd(text, AnchorEnd(text, o)), o)
        /\ (\E k \in DOMAIN parser.log : parser.log[k] = <<"quantifier", "Anchor">>)
           => /\ result.root = NULL
              /\ result.error # NULL
              /\ result.error.message = "Cannot quantify anchor"
        /\ Succeeded =>
               \A k \in DOMAIN NodesOf(result.root) :
                   LET n == NodesOf(result.root)[k]
                   IN  n.type = "Quant" => n.child.type # "Anchor"

\* a^{1,2}?: the braced quantifier is read to its end, then refused.
C9_Witness ==
    /\ Parsed
    /\ text = <<"a", "^", "{", "1", ",", "2", "}", "?">>
    /\ QuantifiedAnchors(text) = {1}
    /\ result.root = NULL
    /\ result.error = [message |-> "Cannot quantify anchor", position |-> 7]

(***************************************************************************)
(* C10: for a text that begins with a %flags directive the flags returned  *)
(* are those whose letters occur in the directive's letter run, the        *)
(* letters, commas, spaces and tabs after the separators: an unknown       *)
(* letter in the run is passed over and the letters after it count.        *)
(***************************************************************************)

IsLetter(ch) == ch \notin {NUL, BS, VT} /\ Ord(ch) \in (65 .. 90) \cup (97 .. 122)

\* The offset after the separators that start at offset o.
RECURSIVE AfterSeparators(_, _)
AfterSeparators(t, o) ==
    IF At(t, o) \in {" ", TAB, ",", "[", "]"} THEN AfterSeparators(t, o + 1) ELSE o

\* The characters of the letter run that starts at offset o.
RECURSIVE LetterRun(_, _)
LetterRun(t, o) ==
    IF IsLetter(At(t, o)) \/ At(t, o) \in {",", " ", TAB}
    THEN {At(t, o)} \cup LetterRun(t, o + 1)
    ELSE {}

FlagsOfLetters(letters) ==
    [ignoreCase |-> letters \cap {"i", "I"} # {},
     multiline |-> letters \cap {"m", "M"} # {},
     dotAll |-> letters \cap {"s", "S"} # {},
     unicode |-> letters \cap {"u", "U"} # {},
     extended |-> letters \cap {"x", "X"} # {}]

C10_FlagsOfLetterRun ==
    (Parsed /\ StartsAt(text, 0, FLAGS_DIRECTIVE)) =>
        result.flags =
            FlagsOfLetters(LetterRun(text, AfterSeparators(text, Len(FLAGS_DIRECTIVE))))

(***************************************************************************)
(* C11: a %flags directive counts only before the first character of the   *)
(* pattern.  When the text has no "%flags", or has a character that is not *)
(* white space before the first one, the flags are all false and the       *)
(* parser's text is the whole text.                                        *)
(***************************************************************************)

\* Texts with "%flags" at the start, in the middle, at the end, or nowhere.
MaxDirectiveTokens == 4

DirectiveTokens ==
    {FLAGS_DIRECTIVE, <<"a">>, <<" ">>, <<"i">>, <<"x">>, <<LF>>, <<"|">>}

InitDirective == InitWith(Texts(DirectiveTokens, MaxDirectiveTokens))

SpecDirective == InitDirective /\ [][Next]_vars

\* The text has a character of the pattern before its first "%flags", or no
\* "%flags" at all.
NoLeadingDirective(t) ==
    \/ strstr(t, FLAGS_DIRECTIVE) = -1
    \/ \E o \in 0 .. (strstr(t, FLAGS_DIRECTIVE) - 1) : At(t, o) \notin {" ", TAB, CR, LF}

C11_DirectiveOnlyLeading ==
    (Parsed /\ NoLeadingDirective(text)) =>
        /\ result.flags = NoFlags
        /\ parser.src = text

(***************************************************************************)
(* C12: a text with an alternation branch that is empty fails with         *)
(* "Alternation lacks left-hand side" or "Alternation lacks right-hand     *)
(* side" (unless the parse failed before that "|"): a "|" at the start of  *)
(* the pattern or of a group body, a "|" followed at once by another "|",  *)
(* and a "|" that is last before the end of the text or before a ")".      *)
(***************************************************************************)

\* Alternations in and out of groups.  In these texts every "(" opens a group.
MaxAltTokens == 5

AltTokens == {<<"a">>, <<"(">>, <<"(", "?", ":">>, <<")">>, <<"|">>}

InitAlt == InitWith(Texts(AltTokens, MaxAltTokens))

SpecAlt == InitAlt /\ [][Next]_vars

\* The offsets of the "|" of a text with nothing to their left ...
LeftEmptyBars(t) ==
    {o \in Offsets(t) : /\ At(t, o) = "|"
                        /\ \/ o = 0
                           \/ At(t, o - 1) = "("
                           \/ StartsAt(t, o - 3, <<"(", "?", ":">>)}

\* The groups open at offset o: the "(" before it less the ")" before it.
OpenGroups(t, o) ==
    Cardinality({g \in Offsets(t) : g < o /\ At(t, g) = "("})
        - Cardinality({g \in Offsets(t) : g < o /\ At(t, g) = ")"})

\* ... and with nothing to their right: the end of the text, another "|", or
\* the ")" that closes a group.
RightEmptyBars(t) ==
    {o \in Offsets(t) : /\ At(t, o) = "|"
                        /\ \/ At(t, o + 1) \in {NUL, "|"}
                           \/ At(t, o + 1) = ")" /\ OpenGroups(t, o) > 0}

C12_EmptyBranchRefused ==
    (Parsed /\ LeftEmptyBars(text) \cup RightEmptyBars(text) # {}) =>
        /\ result.root = NULL
        /\ result.error # NULL
        /\ \/ result.error.message \in {"Alternation lacks left-hand side",
                                        "Alternation lacks right-hand side"}
           \/ parser.i <= Min(LeftEmptyBars(text) \cup RightEmptyBars(text))

(***************************************************************************)
(* C13: when strling_parse returns a root the cursor is at the end of the  *)
(* pattern body.  A text with a ")" that no "(" matches fails with         *)
(* "Unmatched ')'" at the first such ")" (unless the parse failed before   *)
(* it), and whenever the top-level alternation ends before the end of the  *)
(* body the parse fails at that offset, with "Unmatched ')'" at a ")" and  *)
(* with "Unexpected trailing input" at any other character.                *)
(***************************************************************************)

\* The offsets of the ")" of a text with no group open.
UnmatchedCloses(t) == {o \in Offsets(t) : At(t, o) = ")" /\ OpenGroups(t, o) = 0}

\* The Parser as the top-level parse_alt leaves it, past the white space after it.
AfterTopLevelAlt(t) == cursor_skip_ws_and_comments(parse_alt(parser_init(t)).p)

C13_WholeBodyConsumed ==
    Parsed =>
        /\ Succeeded => /\ cursor_eof(parser)
                        /\ parser.i = Len(text) - parser.src_offset
        /\ UnmatchedCloses(text) # {} =>
               LET o == Min(UnmatchedCloses(text))
               IN  FailsBy("Unmatched ')'", o, o - 1)
        /\ LET p == AfterTopLevelAlt(text)
           IN  (p.error = NULL /\ ~cursor_eof(p)) =>
                   /\ result.root = NULL
                   /\ result.error =
                          [message |-> IF cursor_peek(p, 0) = ")" THEN "Unmatched ')'"
                                       ELSE "Unexpected trailing input",
                           position |-> p.i]

\* a): the alternation ends at the ")" and the parse fails there.
C13_Witness ==
    /\ Parsed
    /\ text = <<"a", ")">>
    /\ UnmatchedCloses(text) = {1}
    /\ AfterTopLevelAlt(text).i = 1
    /\ result.root = NULL
    /\ result.error = [message |-> "Unmatched ')'", position |-> 1]

(***************************************************************************)
(* C14: the parser counts the groups it is in: the Parser has a depth      *)
(* counter, by which nesting deeper than 1000 is refused with "Nesting too *)
(* deep".                                                                  *)
(***************************************************************************)
C14_DepthCounter == Parsed => "depth" \in DOMAIN parser

(***************************************************************************)
(* C15: outside a class, \xHH, \x{...}, \uHHHH and \u{...} each yield the  *)
(* Literal of the code point written: one ASCII character below 128, the   *)
(* UTF-8 bytes of the code point from 128 on.                              *)
(***************************************************************************)

\* One hex or unicode escape, of each of the four forms, well formed or not.
MaxHexDigits == 4

HexTokens == {<<"0">>, <<"1">>, <<"4">>, <<"7">>, <<"9">>, <<"a">>, <<"E">>}

EscapeTexts ==
    LET digits == Texts(HexTokens, MaxHexDigits)
    IN  UNION {{<<BSL, e>> \o d, <<BSL, e, "{">> \o d \o <<"}">>} :
               e \in {"x", "u"}, d \in digits}

InitEscapes == InitWith(EscapeTexts)

SpecEscapes == InitEscapes /\ [][Next]_vars

\* The hex digits of a text that is one escape: between the braces, or the two
\* after \x, or the four after \u; <<>> when the text is no such escape.
EscapeDigits(t) ==
    IF Len(t) < 3 \/ t[1] # BSL \/ t[2] \notin {"x", "u"} THEN <<>>
    ELSE IF t[3] = "{"
    THEN IF t[Len(t)] = "}" THEN SubSeq(t, 4, Len(t) - 1) ELSE <<>>
    ELSE IF Len(t) = (IF t[2] = "x" THEN 4 ELSE 6) THEN SubSeq(t, 3, Len(t))
    ELSE <<>>

\* The number that hex digits write.
RECURSIVE HexNumber(_)
HexNumber(digits) ==
    IF digits = <<>> THEN 0
    ELSE 16 * HexNumber(SubSeq(digits, 1, Len(digits) - 1)) + HexVal(digits[Len(digits)])

\* The UTF-8 bytes of a code point.
Utf8(v) ==
    IF v < 128 THEN <<Chr(v)>>
    ELSE IF v < 2048 THEN <<Chr(192 + (v \div 64)), Chr(128 + (v % 64))>>
    ELSE IF v < 65536
    THEN <<Chr(224 + (v \div 4096)), Chr(128 + ((v \div 64) % 64)), Chr(128 + (v % 64))>>
    ELSE <<Chr(240 + (v \div 262144)), Chr(128 + ((v \div 4096) % 64)),
           Chr(128 + ((v \div 64) % 64)), Chr(128 + (v % 64))>>

C15_EscapeCodePoint ==
    (/\ Parsed
     /\ EscapeDigits(text) # <<>>
     /\ \A k \in DOMAIN EscapeDigits(text) : isxdigit(EscapeDigits(text)[k])
     /\ HexNumber(EscapeDigits(text)) > 0)
    => /\ result.error = NULL
       /\ result.root = strling_ast_lit_create(Utf8(HexNumber(EscapeDigits(text))))

(***************************************************************************)
(* C16: the position of a diagnostic is an offset into the text given to   *)
(* strling_parse: when a %flags line precedes the pattern body, it is the  *)
(* length of what precedes the body plus the offset in the body at which   *)
(* the body, parsed on its own, fails.                                     *)
(***************************************************************************)
C16_PositionInOriginal ==
    (Failed /\ ~result.flags.extended /\ strstr(parser.src, FLAGS_DIRECTIVE) = -1) =>
        result.error.position =
            parser.src_offset + parse_with(parser_init(parser.src)).result.error.position

(***************************************************************************)
(* C17: for "%flags [ix]", a newline and "foo bar" the flags are           *)
(* ignoreCase and extended and no others, and the space between foo and    *)
(* bar is a Literal of the AST.                                            *)
(***************************************************************************)

\* Bodies in extended mode, after the directive line "%flags [ix]".
MaxExtendedTokens == 3

ExtendedTokens ==
    {<<"f", "o", "o">>, <<"b", "a", "r">>, <<" ">>, <<"#">>, <<LF>>, <<"*">>, <<BSL, " ">>,
     <<"[">>, <<"]">>}

DirectiveIX == FLAGS_DIRECTIVE \o <<" ", "[", "i", "x", "]", LF>>

InitExtended == InitWith({DirectiveIX \o t : t \in Texts(ExtendedTokens, MaxExtendedTokens)})

SpecExtended == InitExtended /\ [][Next]_vars

\* The Seq of the one-character Literals of a string.
LiteralsOf(chars) ==
    strling_ast_seq_create([k \in DOMAIN chars |-> strling_ast_lit_create(<<chars[k]>>)])

C17_ScenarioSix ==
    (Parsed /\ text = DirectiveIX \o <<"f", "o", "o", " ", "b", "a", "r">>) =>
        /\ result.flags = [NoFlags EXCEPT !.ignoreCase = TRUE, !.extended = TRUE]
        /\ result.error = NULL
        /\ result.root = LiteralsOf(<<"f", "o", "o", " ", "b", "a", "r">>)

(***************************************************************************)
(* C18: the parse of the empty text succeeds: the root is a Seq of no      *)
(* parts, the five flags are false and there is no diagnostic.             *)
(***************************************************************************)
C18_EmptyText ==
    (Parsed /\ text = <<>>) =>
        result = [flags |-> NoFlags, root |-> strling_ast_seq_create(<<>>), error |-> NULL]

C18_Witness ==
    /\ Parsed
    /\ text = <<>>
    /\ parser.log = <<>>
    /\ result.root = [type |-> "Seq", parts |-> <<>>]

(***************************************************************************)
(* C19: a quantifier read after an atom yields the Quant of that atom with *)
(* the bounds "*" (0, unbounded), "+" (1, unbounded), "?" (0, 1), "{m}"    *)
(* (m, m), "{m,}" (m, unbounded), "{m,n}" (m, n), unbounded being -1; its  *)
(* mode is Lazy when "?" follows it at once, Possessive when "+" does and  *)
(* Greedy otherwise, and the cursor is left after that "?" or "+".         *)
(***************************************************************************)

\* The bounds that the complete quantifier at offset o writes.
QuantMin(t, o) ==
    IF At(t, o) = "+" THEN 1
    ELSE IF At(t, o) = "{" THEN NumberAt(t, o + 1, 0)
    ELSE 0

QuantMax(t, o) ==
    IF At(t, o) \in {"*", "+"} THEN -1
    ELSE IF At(t, o) = "?" THEN 1
    ELSE LET m == AfterDigits(t, o + 1)
         IN  IF At(t, m) = "}" THEN NumberAt(t, o + 1, 0)
             ELSE IF At(t, m + 1) = "}" THEN -1
             ELSE NumberAt(t, m + 1, 0)

\* The mode that the character after the quantifier gives it.
QuantMode(t, o) ==
    IF At(t, QuantEnd(t, o)) = "?" THEN "Lazy"
    ELSE IF At(t, QuantEnd(t, o)) = "+" THEN "Possessive"
    ELSE "Greedy"

C19_QuantifierForms ==
    Parsed =>
        /\ \A o \in Offsets(parser.src) :
               QuantEnd(parser.src, o) # -1 =>
                   LET child == strling_ast_lit_create(<<"a">>)
                       r == parse_quant_if_any(ParserAt(o), child)
                   IN  /\ r.p.error = NULL
                       /\ r.node = strling_ast_quant_create(child,
                                       QuantMin(parser.src, o), QuantMax(parser.src, o),
                                       QuantMode(parser.src, o))
                       /\ r.p.i = QuantEnd(parser.src, o)
                                      + (IF QuantMode(parser.src, o) = "Greedy" THEN 0 ELSE 1)
        /\ (Len(text) > 1 /\ text[1] = "a" /\ QuantEnd(text, 1) # -1
            /\ QuantEnd(text, 1) + (IF QuantMode(text, 1) = "Greedy" THEN 0 ELSE 1) = Len(text))
           => /\ result.error = NULL
              /\ result.root = strling_ast_quant_create(strling_ast_lit_create(<<"a">>),
                                   QuantMin(text, 1), QuantMax(text, 1), QuantMode(text, 1))

\* a{2,}?: at least two, lazy.
C19_Witness ==
    /\ Succeeded
    /\ text = <<"a", "{", "2", ",", "}", "?">>
    /\ result.root = strling_ast_quant_create(strling_ast_lit_create(<<"a">>), 2, -1, "Lazy")
    /\ parser.i = 6

(***************************************************************************)
(* C20: a "{" after an atom that digits follow and no "}" closes (after    *)
(* the digits, or after a "," and the digits after it) fails with          *)
(* "Incomplete quantifier" at the character that should be the "}": the    *)
(* cursor stays there and the "{" is not read again as a Literal.          *)
(***************************************************************************)

\* The offset at which the "}" of the braced quantifier that starts at offset o
\* is looked for.
BraceCloseAt(t, o) ==
    LET m == AfterDigits(t, o + 1)
    IN  IF At(t, m) = "," THEN AfterDigits(t, m + 1) ELSE m

\* The offsets of the "{" of a text that digits follow and no "}" closes.
IncompleteBraces(t) ==
    {o \in Offsets(t) : At(t, o) = "{" /\ At(t, o + 1) \in Digits /\ QuantEnd(t, o) = -1}

C20_IncompleteQuantifier ==
    Parsed =>
        /\ \A o \in IncompleteBraces(parser.src) :
               LET child == strling_ast_lit_create(<<"a">>)
                   r == parse_quant_if_any(ParserAt(o), child)
               IN  /\ r.p.error = [message |-> "Incomplete quantifier",
                                   position |-> BraceCloseAt(parser.src, o)]
                   /\ r.p.i = BraceCloseAt(parser.src, o)
                   /\ r.p.i > o
        /\ (Len(text) > 1 /\ text[1] = "a" /\ 1 \in IncompleteBraces(text)) =>
               /\ result.root = NULL
               /\ result.error = [message |-> "Incomplete quantifier",
                                  position |-> BraceCloseAt(text, 1)]
               /\ parser.i = BraceCloseAt(text, 1)
               /\ \A k \in DOMAIN parser.log : parser.log[k] # <<"literal", 1, "{">>

\* a{2,z: the digit and the "," are read, and the "z" is no "}".
C20_Witness ==
    /\ Parsed
    /\ text = <<"a", "{", "2", ",", "z">>
    /\ IncompleteBraces(text) = {1}
    /\ result.root = NULL
    /\ result.error = [message |-> "Incomplete quantifier", position |-> 4]
    /\ parser.i = 4

(***************************************************************************)
(* C21: a quantifier character ("*", "+", "?" or "{") where a sequence has *)
(* no atom yet (at the start of the pattern, directly after "|", directly  *)
(* after the opening prefix of a group or lookaround) makes the parse fail *)
(* with "Invalid quantifier - nothing to quantify" at that character.      *)
(***************************************************************************)

\* Groups and lookarounds of every kind, alternation and the four quantifier
\* characters.  In these texts every "(" opens a group or a lookaround.
MaxStartTokens == 3

StartTokens ==
    {<<"a">>, <<"(">>, <<"(", "?", ":">>, <<"(", "?", "=">>, <<"(", "?", "<", "!">>,
     <<"(", "?", ">">>, <<"(", "?", "<", "n", ">">>, <<")">>, <<"|">>, <<"*">>, <<"+">>,
     <<"?">>, <<"{">>}

MoreStartTexts ==
    {<<"(", "?", "!", "a", ")", "(", "?", "<", "=", "a", ")", "(", "?", "<", "n", ">", "a", ")">>,
     <<"(", "?", ">", "a", "|", "(", "?", "<", "=", "a", "|", "a", ")", ")">>,
     <<"(", "?", "<", "=", "a", "(", "?", "!", "a">>,
     <<"(", "?", "<", "n", "a">>,
     <<"(", "?", "<", "!", "(", "?", "<", "n", ">", "a", ")">>,
     <<"(", "?", "<", "=", "a", ">", "a", ")">>}

InitStart == InitWith(Texts(StartTokens, MaxStartTokens) \cup MoreStartTexts)

SpecStart == InitStart /\ [][Next]_vars

\* The offset after the opening prefix of the group or lookaround whose "(" is
\* at offset g; -1 when the prefix is a group name that no ">" ends.
PrefixEnd(t, g) ==
    IF StartsAt(t, g + 1, <<"?", ":">>) THEN g + 3
    ELSE IF StartsAt(t, g + 1, <<"?", "<", "=">>) THEN g + 4
    ELSE IF StartsAt(t, g + 1, <<"?", "<", "!">>) THEN g + 4
    ELSE IF StartsAt(t, g + 1, <<"?", "<">>)
    THEN (IF Until(t, g + 3, ">") = -1 THEN -1 ELSE Until(t, g + 3, ">") + 1)
    ELSE IF StartsAt(t, g + 1, <<"?", ">">>) THEN g + 3
    ELSE IF StartsAt(t, g + 1, <<"?", "=">>) THEN g + 3
    ELSE IF StartsAt(t, g + 1, <<"?", "!">>) THEN g + 3
    ELSE g + 1

\* The offsets where a sequence of a text starts.
SeqStarts(t) ==
    {0} \cup {o + 1 : o \in {b \in Offsets(t) : At(t, b) = "|"}}
        \cup {PrefixEnd(t, g) : g \in {b \in Offsets(t) : At(t, b) = "("}}

\* The offsets of the quantifier characters with which a sequence starts.
NothingToQuantify(t) == {o \in SeqStarts(t) : At(t, o) \in {"*", "+", "?", "{"}}

\* The parse fails at the first of them, unless it failed before it: at a
\* smaller offset, or at the name of the group whose prefix ends there.
C21_NothingToQuantify ==
    (Parsed /\ NothingToQuantify(text) # {}) =>
        LET o == Min(NothingToQuantify(text))
        IN  /\ result.root = NULL
            /\ result.error # NULL
            /\ \/ result.error = [message |-> "Invalid quantifier - nothing to quantify",
                                  position |-> o]
               \/ result.error.position < o
               \/ result.error = [message |-> "Duplicate group name", position |-> o]

\* (?<!* : the lookbehind's body starts with the "*".
C21_Witness ==
    /\ Parsed
    /\ text = <<"(", "?", "<", "!", "*">>
    /\ NothingToQuantify(text) = {4}
    /\ result.root = NULL
    /\ result.error = [message |-> "Invalid quantifier - nothing to quantify", position |-> 4]

(***************************************************************************)
(* C22: when the text starts with a %flags directive, the pattern body is  *)
(* the text after the first line terminator that follows the directive:    *)
(* the directive line and that terminator are consumed and nothing after   *)
(* them is, so a further newline is the first character of the body.       *)
(***************************************************************************)

\* The offset of the first CR or LF at or after offset o; the length of the
\* text when there is none.
RECURSIVE LineEnd(_, _)
LineEnd(t, o) ==
    IF o >= Len(t) \/ At(t, o) \in {LF, CR} THEN o ELSE LineEnd(t, o + 1)

\* The offset after the line terminator at offset o: LF, CR or CR LF.
AfterTerminator(t, o) ==
    IF o >= Len(t) THEN o
    ELSE IF At(t, o) = CR /\ At(t, o + 1) = LF THEN o + 2
    ELSE o + 1

\* The offset at which the body starts in a text that starts with a directive.
BodyStart(t) == AfterTerminator(t, LineEnd(t, Len(FLAGS_DIRECTIVE)))

C22_BodyAfterFirstNewline ==
    (Parsed /\ StartsAt(text, 0, FLAGS_DIRECTIVE)) =>
        /\ parser.src_offset = BodyStart(text)
        /\ parser.src = SubSeq(text, BodyStart(text) + 1, Len(text))

(***************************************************************************)
(* C23: with the extended flag, the runs of space, tab, CR and LF and the  *)
(* comments from "#" to the end of the line that stand between atoms       *)
(* outside a character class produce no node, and inside "[...]" every     *)
(* such character is a class item; without the flag nothing is skipped.    *)
(* The class-nesting counter is 0 outside a class and back to 0 after      *)
(* every class.                                                            *)
(***************************************************************************)

\* White space, comments, classes, alternation and groups, each text once as
\* it is and once after the directive that sets the extended flag.
MaxSpaceTokens == 4

SpaceTokens ==
    {<<"a">>, <<" ">>, <<LF>>, <<"#">>, <<"[">>, <<"]">>, <<"|">>, <<"(">>, <<")">>}

MoreSpaceTexts ==
    {<<"a", TAB, CR, "a", " ", "#", "[", CR, "[", TAB, "#", CR, "]", LF>>,
     <<"[", "^", " ", "-", "#", "]", " ", "a", "*">>,
     <<"(", " ", "a", " ", "|", " ", "[", " ", "]", " ", ")", " ", "#", ")">>,
     <<"a", BSL, " ", BSL, "#", " ", "a">>,
     <<"[", " ", BSL, "d", "#", "]", " ", ".">>,
     <<"[", " ", "#", "]", " ", "a", " ", "#", "]">>}

InitSpace ==
    InitWith({d \o t : d \in {<<>>, DirectiveIX},
                       t \in Texts(SpaceTokens, MaxSpaceTokens) \cup MoreSpaceTexts})

SpecSpace == InitSpace /\ [][Next]_vars

\* What the extended mode skips.
Skipped == {" ", TAB, CR, LF, "#"}

\* The characters of a text that are neither white space nor in a comment;
\* comment is whether the text starts inside one.
RECURSIVE Visible(_, _)
Visible(t, comment) ==
    IF t = <<>> THEN <<>>
    ELSE IF comment
    THEN Visible(Tail(t), Head(t) \notin {CR, LF})
    ELSE IF Head(t) = "#" THEN Visible(Tail(t), TRUE)
    ELSE IF Head(t) \in {" ", TAB, CR, LF} THEN Visible(Tail(t), FALSE)
    ELSE <<Head(t)>> \o Visible(Tail(t), FALSE)

\* A text of literal characters, white space and comments only.
PlainText(t) == \A k \in DOMAIN t : t[k] \in {"a"} \cup Skipped

\* The node parse_seq returns for these literal characters.
SeqOfLiterals(chars) ==
    IF Len(chars) = 1 THEN strling_ast_lit_create(chars)
    ELSE strling_ast_seq_create([k \in DOMAIN chars |-> strling_ast_lit_create(<<chars[k]>>)])

C23_ExtendedSkipping ==
    Parsed =>
        /\ parser.in_class = 0
        /\ parser.extended_mode = result.flags.extended
        \* extended: no Literal is read from a skipped character
        /\ parser.extended_mode =>
               \A k \in DOMAIN parser.log :
                   parser.log[k][1] = "literal" => parser.log[k][3] \notin Skipped
        /\ (parser.extended_mode /\ PlainText(parser.src)) =>
               /\ result.error = NULL
               /\ result.root = SeqOfLiterals(Visible(parser.src, FALSE))
        \* not extended: the skipper moves over nothing and every character is read
        /\ ~parser.extended_mode =>
               \A o \in Offsets(parser.src) :
                   cursor_skip_ws_and_comments(ParserAt(o)) = ParserAt(o)
        /\ (~parser.extended_mode /\ PlainText(parser.src)) =>
               /\ result.error = NULL
               /\ result.root = SeqOfLiterals(parser.src)
        \* in both modes a class of plain characters has one item for each of them
        /\ \A o \in Offsets(parser.src) :
               At(parser.src, o) = "[" =>
                   LET close == Until(parser.src, o + 1, "]")
                       content == SubSeq(parser.src, o + 2, close)
                       r == parse_char_class(ParserAt(o))
                   IN  /\ r.p.in_class = 0
                       /\ (close # -1 /\ \A k \in DOMAIN content : content[k] \notin {BSL, "-", "^"})
                          => /\ r.p.error = NULL
                             /\ r.p.i = close + 1
                             /\ r.node = strling_ast_charclass_create(FALSE,
                                    [k \in DOMAIN content |->
                                        strling_class_literal_create(<<content[k]>>)])

\* [ #] a #] under the x flag: the class keeps the space and the "#", the text
\* after it loses them.
C23_Witness ==
    /\ Succeeded
    /\ text = DirectiveIX \o <<"[", " ", "#", "]", " ", "a", " ", "#", "]">>
    /\ parser.in_class = 0
    /\ result.root = strling_ast_seq_create(
           <<strling_ast_charclass_create(FALSE,
                 <<strling_class_literal_create(<<" ">>), strling_class_literal_create(<<"#">>)>>),
             strling_ast_lit_create(<<"a">>)>>)

(***************************************************************************)
(* C24: in the AST of a successful parse every Alt has at least two        *)
(* branches, none of which is an Alt, and no Seq has exactly one part: a   *)
(* sequence of one atom is that atom, a sequence of no atom an empty Seq.  *)
(***************************************************************************)
C24_AltSeqShape ==
    Succeeded =>
        /\ LET nodes == NodesOf(result.root)
           IN  \A k \in DOMAIN nodes :
                   /\ nodes[k].type = "Alt" =>
                          /\ Len(nodes[k].branches) >= 2
                          /\ \A b \in DOMAIN nodes[k].branches :
                                 nodes[k].branches[b].type # "Alt"
                   /\ nodes[k].type = "Seq" => Len(nodes[k].parts) # 1
        /\ text = <<"a">> => result.root = strling_ast_lit_create(<<"a">>)
        /\ text = <<"(", ")">> =>
               result.root = strling_ast_group_create(TRUE, strling_ast_seq_create(<<>>),
                                                      NoName, FALSE)

\* a|a|a: one Alt of three branches, not an Alt in an Alt.
C24_Witness ==
    /\ Succeeded
    /\ text = <<"a", "|", "a", "|", "a">>
    /\ result.root = strling_ast_alt_create(<<strling_ast_lit_create(<<"a">>),
                                              strling_ast_lit_create(<<"a">>),
                                              strling_ast_lit_create(<<"a">>)>>)

(***************************************************************************)
(* C25: on "(" the prefix selects the construct: "(?:" a non-capturing     *)
(* group, "(?>" an atomic group, "(?=" and "(?!" a positive and a negative *)
(* lookahead, "(?<=" and "(?<!" a positive and a negative lookbehind       *)
(* (never a named group), "(?<name>" a named capturing group, anything     *)
(* else an unnamed capturing group.  In every Group a name is present only *)
(* when capturing is true, and atomic is true only when capturing is       *)
(* false.                                                                  *)
(***************************************************************************)

\* The construct that the "(" at offset g of a text opens, with an empty body.
ConstructAt(t, g) ==
    IF StartsAt(t, g + 1, <<"?", ":">>)
    THEN strling_ast_group_create(FALSE, NULL, NoName, FALSE)
    ELSE IF StartsAt(t, g + 1, <<"?", ">">>)
    THEN strling_ast_group_create(FALSE, NULL, NoName, TRUE)
    ELSE IF StartsAt(t, g + 1, <<"?", "=">>) THEN strling_ast_look_create("Ahead", FALSE, NULL)
    ELSE IF StartsAt(t, g + 1, <<"?", "!">>) THEN strling_ast_look_create("Ahead", TRUE, NULL)
    ELSE IF StartsAt(t, g + 1, <<"?", "<", "=">>)
    THEN strling_ast_look_create("Behind", FALSE, NULL)
    ELSE IF StartsAt(t, g + 1, <<"?", "<", "!">>)
    THEN strling_ast_look_create("Behind", TRUE, NULL)
    ELSE IF StartsAt(t, g + 1, <<"?", "<">>)
    THEN strling_ast_group_create(TRUE, NULL, NameAt(t, g + 3), FALSE)
    ELSE strling_ast_group_create(TRUE, NULL, NoName, FALSE)

\* The offsets of the "(" of a text, in order.
OpensOf(t) == SelectSeq([k \in DOMAIN t |-> k - 1], LAMBDA o : At(t, o) = "(")

\* The groups and lookarounds of a tree, in source order.
ConstructsOf(root) == SelectSeq(NodesOf(root), LAMBDA n : n.type \in {"Group", "Look"})

C25_ConstructByPrefix ==
    Succeeded =>
        LET opens == OpensOf(text)
            made == ConstructsOf(result.root)
        IN  /\ Len(made) = Len(opens)
            /\ \A k \in DOMAIN made :
                   /\ [made[k] EXCEPT !.body = NULL] = ConstructAt(text, opens[k])
                   /\ made[k].type = "Group" =>
                          /\ made[k].name # NoName => made[k].capturing
                          /\ made[k].atomic => ~made[k].capturing

\* (?>a|(?<=a|a)): an atomic group and, in it, a lookbehind.
C25_Witness ==
    /\ Succeeded
    /\ text = <<"(", "?", ">", "a", "|", "(", "?", "<", "=", "a", "|", "a", ")", ")">>
    /\ OpensOf(text) = <<0, 5>>
    /\ result.root.type = "Group" /\ result.root.atomic /\ ~result.root.capturing
    /\ result.root.body.branches[2].type = "Look"
    /\ result.root.body.branches[2].dir = "Behind"
    /\ ~result.root.body.branches[2].neg

(***************************************************************************)
(* C26: when the character after the body of a group or lookaround is not  *)
(* ")" (at the end of input in particular) the parse fails with            *)
(* "Unterminated group", "Unterminated atomic group", "Unterminated        *)
(* lookahead" or "Unterminated lookbehind", according to the construct     *)
(* opened; no Group or Look is produced whose ")" has not been consumed.   *)
(***************************************************************************)

\* The diagnostic for the construct that the "(" at offset g opens.
UnterminatedAt(t, g) ==
    LET c == ConstructAt(t, g)
    IN  IF c.type = "Look"
        THEN (IF c.dir = "Ahead" THEN "Unterminated lookahead" ELSE "Unterminated lookbehind")
        ELSE IF c.atomic THEN "Unterminated atomic group"
        ELSE "Unterminated group"

\* The parse of the construct whose "(" is at offset g of the body, by a Parser
\* that knows no group name.
ConstructParsedAt(g) == parse_group_or_look([ParserAt(g) EXCEPT !.cap_names = <<>>])

\* The Parser after the body of that construct; in the body of a named group
\* the Parser knows its name.
AfterBodyAt(g) ==
    LET c == ConstructAt(parser.src, g)
    IN  parse_alt([ParserAt(PrefixEnd(parser.src, g)) EXCEPT
                       !.cap_names = IF c.type = "Group" /\ c.name # NoName
                                      THEN <<c.name>> ELSE <<>>]).p

C26_UnterminatedConstruct ==
    Parsed =>
        /\ \A g \in Offsets(parser.src) :
               (At(parser.src, g) = "(" /\ PrefixEnd(parser.src, g) # -1) =>
                   LET r == ConstructParsedAt(g)
                       b == AfterBodyAt(g)
                   IN  /\ (b.error = NULL /\ cursor_peek(b, 0) # ")") =>
                              /\ r.node = NULL
                              /\ r.p.error = [message |-> UnterminatedAt(parser.src, g),
                                              position |-> b.i]
                       /\ r.node # NULL =>
                              /\ r.p.error = NULL
                              /\ b.error = NULL
                              /\ cursor_peek(b, 0) = ")"
                              /\ r.p.i = b.i + 1
        \* more "(" than ")": the parse fails; and a tree has a ")" for each of
        \* its constructs
        /\ Cardinality({o \in Offsets(text) : At(text, o) = "("})
               > Cardinality({o \in Offsets(text) : At(text, o) = ")"}) => Failed
        /\ Succeeded =>
               Len(ConstructsOf(result.root))
                   = Cardinality({o \in Offsets(text) : At(text, o) = ")"})

\* (?<=a(?!a : the text ends in the body of the lookahead.
C26_Witness ==
    /\ Failed
    /\ text = <<"(", "?", "<", "=", "a", "(", "?", "!", "a">>
    /\ result.root = NULL
    /\ result.error = [message |-> "Unterminated lookahead", position |-> 9]
    /\ ConstructParsedAt(0).p.error = result.error

(***************************************************************************)
(* C27: strling_parse terminates.  Every iteration of every parsing loop   *)
(* (sequence, alternation, character class, white space and comments,      *)
(* digits, names) moves the cursor on by at least one character or ends    *)
(* the loop, and the one rewind of the cursor, after a "{" that starts no  *)
(* quantifier, is followed by reading that "{" as a Literal, so that no    *)
(* position of the cursor comes back.                                      *)
(***************************************************************************)

\* The Parser at offset o of the body, inside a character class.
ParserInClassAt(o) == [ParserAt(o) EXCEPT !.in_class = 1]

\* The Parser at offset o of the body, in extended mode.
ParserExtendedAt(o) == [ParserAt(o) EXCEPT !.extended_mode = TRUE, !.in_class = 0]

\* The events of the log that record a Literal read from the text.
LiteralsRead == SelectSeq(parser.log, LAMBDA e : e[1] = "literal")

C27_LoopsAdvance ==
    Parsed =>
        /\ parser.i <= Len(parser.src)
        /\ \A o \in Offsets(parser.src) :
               \* parse_seq: an atom, and the quantifier tried after it
               /\ LET atom == parse_atom(ParserAt(o))
                  IN  atom.node # NULL =>
                          /\ atom.p.i > o
                          /\ parse_quant_if_any(atom.p, atom.node).p.i >= atom.p.i
               \* parse_alt: the "|" and the branch after it
               /\ At(parser.src, o) = "|" =>
                      alt_loop(ParserAt(o), <<strling_ast_lit_create(<<"a">>)>>).p.i > o
               \* parse_char_class: an item
               /\ At(parser.src, o) # "]" =>
                      (IF At(parser.src, o) = BSL THEN parse_class_escape(ParserInClassAt(o))
                       ELSE class_item(ParserInClassAt(o))).p.i > o
               \* cursor_skip_ws_and_comments
               /\ LET s == cursor_skip_ws_and_comments(ParserExtendedAt(o))
                  IN  /\ s.i >= o
                      /\ At(parser.src, o) \in Skipped => s.i > o
                      /\ At(parser.src, s.i) \notin Skipped
               \* the digit and name loops
               /\ read_digits(ParserAt(o), 0, FALSE).p.i = AfterDigits(parser.src, o)
               /\ LET n == read_name(ParserAt(o), ">", <<>>)
                  IN  /\ n.p.i = o + Len(n.name)
                      /\ At(parser.src, n.p.i) \in {">", NUL}
        \* the rewind: the "{" is the next Literal read
        /\ \A k \in DOMAIN parser.log :
               parser.log[k][1] = "backtrack" =>
                   /\ k < Len(parser.log)
                   /\ parser.log[k + 1] = <<"literal", parser.log[k][2], "{">>
                   /\ parser.log[k][2] < parser.i
        \* no character is read twice
        /\ \A j, k \in DOMAIN LiteralsRead :
               j < k => LiteralsRead[j][2] < LiteralsRead[k][2]

\* a{a{ : two rewinds, and the four characters read in order.
C27_Witness ==
    /\ Succeeded
    /\ text = <<"a", "{", "a", "{">>
    /\ parser.i = 4
    /\ parser.log = <<(<<"literal", 0, "a">>), <<"backtrack", 1>>, <<"literal", 1, "{">>,
                      <<"literal", 2, "a">>, <<"backtrack", 3>>, <<"literal", 3, "{">>>>

(***************************************************************************)
(* C28: every Literal of the AST of a successful parse holds a string of   *)
(* at least one character, the Literals of "\0", of "\x00", "\x{0}" and    *)
(* "\x{}" and of a backslash that ends the text among them.                *)
(***************************************************************************)
C28_LiteralNotEmpty ==
    Succeeded =>
        LET nodes == NodesOf(result.root)
        IN  \A k \in DOMAIN nodes : nodes[k].type = "Literal" => Len(nodes[k].value) >= 1

(***************************************************************************)
(* C29: in extended mode a quantifier character that white space or a      *)
(* comment separates from the atom before it is not applied to that atom:  *)
(* the atom stays as it is and the character is read as a Literal of its   *)
(* own, with no diagnostic (under x, "a *" is the Literals a and "*").     *)
(***************************************************************************)
C29_SeparatedQuantifier ==
    (Parsed /\ parser.extended_mode) =>
        /\ \A o \in Offsets(parser.src) :
               At(parser.src, o) \in Skipped =>
                   LET child == strling_ast_lit_create(<<"a">>)
                       s == cursor_skip_ws_and_comments(ParserAt(o)).i
                   IN  \* the quantifier is looked for at the skipped character
                       /\ parse_quant_if_any(ParserAt(o), child) = Ret(ParserAt(o), child)
                       \* and the quantifier character after it is the next atom
                       /\ At(parser.src, s) \in {"*", "+", "?", "{"} =>
                              LET atom == parse_atom(ParserAt(o))
                              IN  /\ atom.node = strling_ast_lit_create(<<At(parser.src, s)>>)
                                  /\ atom.p.i = s + 1
                                  /\ atom.p.error = NULL
                                  /\ seq_step(ParserAt(s), <<child>>).p.error
                                         # [message |-> "Invalid quantifier - nothing to quantify",
                                            position |-> s]
        /\ \A w \in Texts({<<" ">>, <<LF>>, <<"#", LF>>}, 2) :
               (w # <<>> /\ parser.src = <<"f", "o", "o">> \o w \o <<"*">>) =>
                   /\ result.error = NULL
                   /\ result.root = LiteralsOf(<<"f", "o", "o", "*">>)

\* foo * under the x flag.
C29_Witness ==
    /\ Succeeded
    /\ parser.extended_mode
    /\ text = DirectiveIX \o <<"f", "o", "o", " ", "*">>
    /\ result.root = LiteralsOf(<<"f", "o", "o", "*">>)
    /\ parser.log[Len(parser.log)] = <<"literal", 4, "*">>

(***************************************************************************)
(* C30: for a braced quantifier with digit runs of any length, the min and *)
(* the max of the Quant are not negative and are the decimal values        *)
(* written: the digits accumulated in a 32-bit signed int never wrap, and  *)
(* a maximum that is written is never stored as -1, the value that means   *)
(* unbounded.                                                              *)
(***************************************************************************)

\* Braced quantifiers after "a" whose digit runs are short, or as long as the
\* digits of 2^31 and 2^32.
MaxBoundDigits == 2

BoundDigits == {<<"5">>, <<"7">>, <<"8">>}

BoundRuns ==
    {d \o e : d \in {<<>>, <<"2", "1", "4", "7", "4", "8", "3", "6", "4">>,
                     <<"4", "2", "9", "4", "9", "6", "7", "2", "9">>},
              e \in Texts(BoundDigits, MaxBoundDigits) \ {<<>>}}

BoundTexts ==
    UNION {{<<"a", "{">> \o r \o <<"}">>, <<"a", "{">> \o r \o <<",", "}">>,
            <<"a", "{", "1", ",">> \o r \o <<"}">>} : r \in BoundRuns}

InitBounds == InitWith(BoundTexts)

SpecBounds == InitBounds /\ [][Next]_vars

\* The decimal digits of a natural number.
RECURSIVE Decimal(_)
Decimal(n) ==
    LET d == CHOOSE c \in Digits : DigitVal(c) = n % 10
    IN  IF n < 10 THEN <<d>> ELSE Append(Decimal(n \div 10), d)

\* The digit run that starts at offset o of a text.
DigitRun(t, o) == SubSeq(t, o + 1, AfterDigits(t, o))

\* An int holds the number that a digit run writes.
Holds(n, run) == n >= 0 /\ Decimal(n) = run

C30_BoundsAsWritten ==
    Succeeded =>
        LET m == AfterDigits(text, 2)
        IN  /\ result.root.type = "Quant"
            /\ Holds(result.root.min, DigitRun(text, 2))
            /\ At(text, m) = "}" => Holds(result.root.max, DigitRun(text, 2))
            /\ (At(text, m) = "," /\ At(text, m + 1) = "}") => result.root.max = -1
            /\ (At(text, m) = "," /\ At(text, m + 1) # "}") =>
                   Holds(result.root.max, DigitRun(text, m + 1))

====
